---- MODULE Spec2Model ----
(***************************************************************************)
(* Witness evaluation of the zkConSeq circuits (GenomicConsensus.circom,   *)
(* ConsensusSequence.circom) and the JavaScript builders of their inputs.  *)
(* A circuit is a set of signals, each assigned once from the inputs, and  *)
(* a set of assertions (===).  The model evaluates one instantiation of a  *)
(* template stage by stage, in instantiation order, and records every      *)
(* assertion that does not hold in `failed`; the input is a satisfying     *)
(* witness exactly when the evaluation ends with `failed` empty.           *)
(*                                                                         *)
(* Field elements are modelled by their signed integer representatives;    *)
(* every value the circuits compute here is far below the field modulus,   *)
(* and 0 - 1 stands for the field element p - 1.  Arrays are 1-based       *)
(* sequences: index k here is index k - 1 in the source.                   *)
(***************************************************************************)
EXTENDS Integers, Sequences, FiniteSets, TLC

(* ------------------------------ bounds --------------------------------- *)
\* nReads * maxAlnLen of the instantiations that are enumerated exhaustively
MaxCells == 4
\* thresholds 0..MaxThreshold are instantiated
MaxThreshold == 1
\* expectedScore is moved away from the computed score by up to MaxDelta
MaxDelta == 1
\* consensus values 0..MaxSymbol are tried (MaxSymbol is beyond the bases)
MaxSymbol == 5
\* inputs with one part replaced take their alignments over 0..MaxBase
MaxBase == 2
\* pair_aln_seq(n, m) is instantiated for n, m in 1..MaxDP
MaxDP == 2
\* PairScore(alnLen) is instantiated for alnLen in 1..MaxPairLen
MaxPairLen == 2
\* ReverseComplementSeq(seqLen) is instantiated for seqLen in 1..MaxRevLen
MaxRevLen == 3
\* startPos[r] ranges over 0..MaxStart where it is varied
MaxStart == 1
\* isReversed[r] ranges over 0..MaxFlag where it is varied
MaxFlag == 2
\* ViralConsensus(1, NUM_READS) is instantiated for NUM_READS in
\* 1..MaxViralReads
MaxViralReads == 2
\* a signal a prover assigns freely ranges over 0..MaxHint
MaxHint == 4

(* -------------------------- program constants -------------------------- *)
GAP == 0
NumBases == 4

BaseCodes == GAP..NumBases
Bases == 1..NumBases
\* a sample of field values: the base codes, values beyond them, and p - 1
FieldSample == BaseCodes \cup {MaxSymbol, 0 - 1}

(* ------------------------------- state --------------------------------- *)
\* Consensus(nReads, maxSeqLen, maxAlnLen, threshold), checked consensus
VARIABLES
    nReads, maxSeqLen, maxAlnLen, threshold,     \* template parameters
    reads, readLens, expectedScore,              \* public inputs
    alignedReads, isReversed, startPos, consensus,  \* private inputs
    pc,                                          \* the stage to evaluate next
    processedReads, seqMatch,                    \* stage 1 signals
    pairScores, pairScoreSignals, scoreAccumulator, totalScore, scoreCheck,
    baseCounts, majorityChk,                     \* stage 3 counts
    validConsensus,                              \* stage 3 verdict per column
    valid,                                       \* output
    failed                                       \* assertions that do not hold

params  == <<nReads, maxSeqLen, maxAlnLen, threshold>>
inputs  == <<reads, readLens, expectedScore, alignedReads, isReversed,
             startPos, consensus>>
stage1  == <<processedReads, seqMatch>>
stage2  == <<pairScores, pairScoreSignals, scoreAccumulator, totalScore,
             scoreCheck>>
stage3  == <<baseCounts, majorityChk, validConsensus>>
consVars == <<params, inputs, pc, stage1, stage2, stage3, valid, failed>>

\* PairScore(alnLen)
VARIABLES
    alnLen,          \* template parameter
    pairAln,         \* aln[2][alnLen]
    scorer,          \* scorer[i]: the signals of the i-th ScoringSystem
    acc,             \* acc[0..i]
    score,           \* output
    pairPc

pairVars == <<alnLen, pairAln, scorer, acc, score, pairPc>>

\* pair_aln_seq(n, m) and check_aln_seq over one read.
\* The table has columns 1..m+1 here (0..m in the source, after m = m + 1).
VARIABLES
    n, m,            \* template parameters (m as declared, before m = m + 1)
    seq, aln,        \* inputs
    a,               \* a[i][j]: the T1 cells evaluated so far
    b,               \* b[i]: the T2 cells evaluated so far
    out,             \* output of pair_aln_seq
    y,               \* output of check_aln_seq over this one read
    row, col,        \* loop counters
    dpPc

dpVars == <<n, m, seq, aln, a, b, out, y, row, col, dpPc>>

\* ReverseComplementSeq(seqLen), and a second instance fed by the first
VARIABLES
    rcLen,           \* template parameter seqLen
    rcIn,            \* seq[seqLen]
    rcOut,           \* revSeq[seqLen]
    rcBack,          \* revSeq[seqLen] of the second instance
    rcPc

rcVars == <<rcLen, rcIn, rcOut, rcBack, rcPc>>

\* the surroundings of a Consensus instantiation
VARIABLES
    testCase,        \* testCase.seqs handed to prepareInput
    alignmentScore,  \* second output of the consensus-computing Consensus
    firstRun         \* the signals of an earlier evaluation, kept to compare

auxVars == <<testCase, alignmentScore, firstRun>>

\* ViralConsensus(L, NUM_READS)
VARIABLES
    viralIn,         \* the template parameters and the input signals
    viral,           \* the signals assigned so far, by name
    viralPc

viralVars == <<viralIn, viral, viralPc>>

vars == <<consVars, pairVars, dpVars, rcVars, auxVars, viralVars>>

(* --------------------- circomlib comparators --------------------------- *)
IsZero(in) == IF in = 0 THEN 1 ELSE 0

IsEqual(in0, in1) == IsZero(in1 - in0)

\* LessThan(32) on inputs below 2^32: 1 iff in0 < in1
LessThan(in0, in1) == IF in0 < in1 THEN 1 ELSE 0

\* GreaterThan(32): the LessThan of the swapped inputs
GreaterThan(in0, in1) == LessThan(in1, in0)

\* GreaterEqThan(n): LessThan(in1, in0 + 1)
GreaterEqThan(in0, in1) == LessThan(in1, in0 + 1)

(* --------------------------- ScoringSystem ----------------------------- *)
\* mutant: a real match is taken from the equality alone
ScoringSystemEqOnly(x0, x1) ==
    LET eq          == IsEqual(x0, x1)
        isZero1     == IsZero(x0)
        isZero2     == IsZero(x1)
        realMatch   == eq
        bothGaps    == isZero1 * isZero2
        isMismatch  == 1 - realMatch - bothGaps
    IN  [realMatch |-> realMatch, bothGaps |-> bothGaps,
         isMismatch |-> isMismatch, y |-> realMatch - isMismatch]

\* mutant: a mismatch costs two
ScoringSystemHeavyMismatch(x0, x1) ==
    LET eq          == IsEqual(x0, x1)
        isZero1     == IsZero(x0)
        isZero2     == IsZero(x1)
        bothNonZero == (1 - isZero1) * (1 - isZero2)
        realMatch   == eq * bothNonZero
        bothGaps    == isZero1 * isZero2
        isMismatch  == 1 - realMatch - bothGaps
    IN  [realMatch |-> realMatch, bothGaps |-> bothGaps,
         isMismatch |-> isMismatch, y |-> realMatch - 2 * isMismatch]

\* mutant: two gaps are penalised like a mismatch
ScoringSystemGapPenalty(x0, x1) ==
    LET eq          == IsEqual(x0, x1)
        isZero1     == IsZero(x0)
        realMatch   == eq * (1 - isZero1)
        isMismatch  == 1 - realMatch
    IN  [realMatch |-> realMatch, bothGaps |-> 0,
         isMismatch |-> isMismatch, y |-> realMatch - isMismatch]

\* mutant: a gap in the first symbol alone counts as two gaps
ScoringSystemFirstGap(x0, x1) ==
    LET eq          == IsEqual(x0, x1)
        isZero1     == IsZero(x0)
        isZero2     == IsZero(x1)
        bothNonZero == (1 - isZero1) * (1 - isZero2)
        realMatch   == eq * bothNonZero
        bothGaps    == isZero1
        isMismatch  == 1 - realMatch - bothGaps
    IN  [realMatch |-> realMatch, bothGaps |-> bothGaps,
         isMismatch |-> isMismatch, y |-> realMatch - isMismatch]

ScoringSystem(x0, x1) ==
    LET eq          == IsEqual(x0, x1)
        isZero1     == IsZero(x0)
        isZero2     == IsZero(x1)
        bothNonZero == (1 - isZero1) * (1 - isZero2)
        realMatch   == eq * bothNonZero
        bothGaps    == isZero1 * isZero2
        isMismatch  == 1 - realMatch - bothGaps
    IN  [realMatch |-> realMatch, bothGaps |-> bothGaps,
         isMismatch |-> isMismatch, y |-> realMatch - isMismatch]

\* acc[i] of PairScore: the running sum over the first i columns
RECURSIVE PairAcc(_, _, _)
PairAcc(aln0, aln1, i) ==
    IF i = 0 THEN 0
    ELSE PairAcc(aln0, aln1, i - 1) + ScoringSystem(aln0[i], aln1[i]).y

PairScore(aln0, aln1, len) == PairAcc(aln0, aln1, len)

(* ------------------------- reverse complement -------------------------- *)
ReverseComplement(base) ==
    IsEqual(base, 0) * 0 + IsEqual(base, 1) * 4 + IsEqual(base, 2) * 3
    + IsEqual(base, 3) * 2 + IsEqual(base, 4) * 1

\* mutant: the complement is taken without reversing the order
ReverseComplementSeqForward(sq, seqLen) ==
    [i \in 1..seqLen |-> ReverseComplement(sq[i])]

ReverseComplementSeq(sq, seqLen) ==
    [i \in 1..seqLen |-> ReverseComplement(sq[seqLen + 1 - i])]

(* ---------------------------- SequenceMatch ---------------------------- *)
\* mutant: the count starts at the first read's start position
RECURSIVE ExtractedCountFromStart(_, _)
ExtractedCountFromStart(aligned, i) ==
    IF i = 0 \/ i <= startPos[1] THEN 0
    ELSE ExtractedCountFromStart(aligned, i - 1) + (1 - IsZero(aligned[i]))

\* extractedCount[i]: the number of non-gap symbols among the first i
RECURSIVE ExtractedCount(_, _)
ExtractedCount(aligned, i) ==
    IF i = 0 THEN 0
    ELSE ExtractedCount(aligned, i - 1) + (1 - IsZero(aligned[i]))

\* the non-gap symbols among the first i, in order (used by a mutant only)
RECURSIVE StripGapsOf(_, _)
StripGapsOf(aligned, i) ==
    IF i = 0 THEN <<>>
    ELSE IF aligned[i] = 0 THEN StripGapsOf(aligned, i - 1)
         ELSE Append(StripGapsOf(aligned, i - 1), aligned[i])

\* mutant: the gaps are counted instead of the bases
SequenceMatchGapCount(original, aligned, origLen, len) ==
    IsEqual(len - ExtractedCount(aligned, len), origLen)

\* mutant: the extracted symbols are also compared with the read
SequenceMatchContent(original, aligned, origLen, len) ==
    LET extracted == StripGapsOf(aligned, len)
    IN  IsEqual(ExtractedCount(aligned, len), origLen)
        * (IF \A i \in 1..Len(extracted) :
                 i <= Len(original) /\ original[i] = extracted[i]
           THEN 1 ELSE 0)

\* mutant: the read's own non-gap count must equal the declared length too
SequenceMatchOwnLength(original, aligned, origLen, len) ==
    IsEqual(ExtractedCount(aligned, len), origLen)
    * IsEqual(ExtractedCount(original, Len(original)), origLen)

SequenceMatch(original, aligned, origLen, len) ==
    IsEqual(ExtractedCount(aligned, len), origLen)

(* ---------------------- CountMatches, MajorityCheck -------------------- *)
RECURSIVE SumBits(_, _)
SumBits(matches, i) ==
    IF i = 0 THEN 0 ELSE SumBits(matches, i - 1) + matches[i]

CountMatches(matches, nr) == SumBits(matches, nr)

\* mutant: a count that only meets the threshold is accepted
MajorityCheckNonStrict(thr, count) == LessThan(thr, count + 1)

MajorityCheck(thr, count) == LessThan(thr, count)

(* ------------------ Consensus(nReads, maxSeqLen, maxAlnLen, threshold) --- *)
\* processedReads[r]: the read, reverse-complemented when isReversed[r] = 1
ProcessedRead(read, rev) ==
    LET revSeq   == ReverseComplementSeq(read, maxSeqLen)
        selector == IsEqual(rev, 1)
    IN  [i \in 1..maxSeqLen |->
            selector * revSeq[i] + (1 - selector) * read[i]]

\* mutant: the inner loop starts at j = i
RECURSIVE PairLoopFromSelf(_, _, _)
PairLoopFromSelf(i, j, nr) ==
    IF i > nr THEN <<>>
    ELSE IF j > nr THEN PairLoopFromSelf(i + 1, i + 1, nr)
    ELSE <<<<i, j>>>> \o PairLoopFromSelf(i, j + 1, nr)

\* the pairs (i, j) the two nested loops visit, in order
RECURSIVE PairLoop(_, _, _)
PairLoop(i, j, nr) ==
    IF i > nr THEN <<>>
    ELSE IF j > nr THEN PairLoop(i + 1, i + 2, nr)
    ELSE <<<<i, j>>>> \o PairLoop(i, j + 1, nr)

NumPairs(nr) == (nr * (nr - 1)) \div 2

\* mutant: each entry holds its pair's score, the running sum is dropped
ScoreAccumulatorNoCarry(al, pairs, k) ==
    [i \in 1..(k + 1) |->
        IF i = 1 THEN 0
        ELSE PairScore(al[pairs[i - 1][1]], al[pairs[i - 1][2]], maxAlnLen)]

\* scoreAccumulator[k]: the sum of the scores of the first k pairs
RECURSIVE ScoreSum(_, _, _)
ScoreSum(al, pairs, k) ==
    IF k = 0 THEN 0
    ELSE ScoreSum(al, pairs, k - 1)
         + PairScore(al[pairs[k][1]], al[pairs[k][2]], maxAlnLen)

\* the signals scoreAccumulator[0..k]
ScoreAccumulator(al, pairs, k) ==
    [i \in 1..(k + 1) |-> ScoreSum(al, pairs, i - 1)]

\* mutant: every base's counter counts the reads that hold any base
BaseCountsAnyBase(al, pos) ==
    [base \in Bases |->
        CountMatches([r \in 1..nReads |-> 1 - IsZero(al[r][pos])], nReads)]

\* baseCounts[base][pos] for the four bases of one column
BaseCounts(al, pos) ==
    [base \in Bases |->
        CountMatches([r \in 1..nReads |-> IsEqual(al[r][pos], base)], nReads)]

\* mutant: any base is supported, whatever its majority check says
ValidConsensusNoSupport(cons, ok) ==
    LET isGap       == IsZero(cons)
        baseSupport == [base \in Bases |-> IsEqual(cons, base)]
        hasMajoritySupport ==
            baseSupport[1] + baseSupport[2] + baseSupport[3] + baseSupport[4]
    IN  IsEqual(isGap + hasMajoritySupport, 1)

\* validConsensus[pos].out from consensus[pos] and majorityChk[pos][*].ok
ValidConsensus(cons, ok) ==
    LET isGap       == IsZero(cons)
        baseSupport == [base \in Bases |-> IsEqual(cons, base) * ok[base]]
        hasMajoritySupport ==
            baseSupport[1] + baseSupport[2] + baseSupport[3] + baseSupport[4]
    IN  IsEqual(isGap + hasMajoritySupport, 1)

\* 1) sequence validation: seqMatch[r].isMatch === 1 for every read
SequenceValidation ==
    /\ pc = "sequence"
    /\ processedReads' =
          [r \in 1..nReads |-> ProcessedRead(reads[r], isReversed[r])]
    /\ seqMatch' =
          [r \in 1..nReads |->
              SequenceMatch(processedReads'[r], alignedReads[r], readLens[r],
                            maxAlnLen)]
    /\ failed' = failed \cup
          {<<"seqMatch", r>> : r \in {q \in 1..nReads : seqMatch'[q] # 1}}
    /\ pc' = "score"
    /\ UNCHANGED <<params, inputs, stage2, stage3, valid, pairVars, dpVars, rcVars,
                   auxVars, viralVars>>

\* 2) score validation: scoreCheck.out === 1
ScoreValidation ==
    /\ pc = "score"
    /\ LET pairs == PairLoop(1, 2, nReads)
           sums  == ScoreAccumulator(alignedReads, pairs, Len(pairs))
       IN  /\ pairScores' =
                 [p \in {pairs[k] : k \in 1..Len(pairs)} |->
                     PairScore(alignedReads[p[1]], alignedReads[p[2]],
                               maxAlnLen)]
           /\ pairScoreSignals' =
                 [k \in 1..Len(pairs) |-> pairScores'[pairs[k]]]
           /\ scoreAccumulator' = sums
           /\ totalScore' = sums[NumPairs(nReads) + 1]
    /\ scoreCheck' = IsEqual(totalScore', expectedScore)
    /\ failed' = IF scoreCheck' = 1 THEN failed
                 ELSE failed \cup {<<"scoreCheck", 0>>}
    /\ pc' = "count"
    /\ UNCHANGED <<params, inputs, stage1, stage3, valid, pairVars, dpVars, rcVars,
                   auxVars, viralVars>>

\* 3a) per column and base: count the reads, compare with the threshold
MajorityCounting ==
    /\ pc = "count"
    /\ baseCounts' = [pos \in 1..maxAlnLen |-> BaseCounts(alignedReads, pos)]
    /\ majorityChk' =
          [pos \in 1..maxAlnLen |->
              [base \in Bases |->
                  MajorityCheck(threshold, baseCounts'[pos][base])]]
    /\ pc' = "consensus"
    /\ UNCHANGED <<params, inputs, stage1, stage2, validConsensus, valid,
                   failed, pairVars, dpVars, rcVars,
                   auxVars, viralVars>>

\* 3b) consensus validation: validConsensus[pos].out === 1 for every column
ConsensusValidation ==
    /\ pc = "consensus"
    /\ validConsensus' =
          [pos \in 1..maxAlnLen |->
              ValidConsensus(consensus[pos], majorityChk[pos])]
    /\ failed' = failed \cup
          {<<"validConsensus", pos>> :
              pos \in {q \in 1..maxAlnLen : validConsensus'[q] # 1}}
    /\ pc' = "output"
    /\ UNCHANGED <<params, inputs, stage1, stage2, baseCounts, majorityChk,
                   valid, pairVars, dpVars, rcVars,
                   auxVars, viralVars>>

\* valid <== scoreCheck.out
Output ==
    /\ pc = "output"
    /\ valid' = scoreCheck
    /\ pc' = "done"
    /\ UNCHANGED <<params, inputs, stage1, stage2, stage3, failed, pairVars,
                   dpVars, rcVars,
                   auxVars, viralVars>>

(* ---- Consensus of ConsensusSequence.circom: the consensus is computed ---- *)
\* ScoringSystem: +1 for equal non-zero values, -1 otherwise
ScoringSystemV1(x0, x1) ==
    LET eq     == IsEqual(x0, x1)
        isZero == IsZero(x0)
        cond   == eq * (1 - isZero)
    IN  [cond |-> cond, y |-> 2 * cond - 1]

RECURSIVE PairAccV1(_, _, _)
PairAccV1(aln0, aln1, i) ==
    IF i = 0 THEN 0
    ELSE PairAccV1(aln0, aln1, i - 1) + ScoringSystemV1(aln0[i], aln1[i]).y

PairScoreV1(aln0, aln1, len) == PairAccV1(aln0, aln1, len)

\* SequenceMatch(maxAlnLen): isMatch <== lenCheck.out
SequenceMatchV1(original, aligned, origLen, len) ==
    IsEqual(ExtractedCount(aligned, len), origLen)

RECURSIVE ScoreSumV1(_, _, _)
ScoreSumV1(al, pairs, k) ==
    IF k = 0 THEN 0
    ELSE ScoreSumV1(al, pairs, k - 1)
         + PairScoreV1(al[pairs[k][1]], al[pairs[k][2]], maxAlnLen)

ScoreAccumulatorV1(al, pairs, k) ==
    [i \in 1..(k + 1) |-> ScoreSumV1(al, pairs, i - 1)]

\* consensusBase: the sum of (base + 1) * ok over base = 0..3
ConsensusBase(ok) == 1 * ok[1] + 2 * ok[2] + 3 * ok[3] + 4 * ok[4]

\* 1) sequence validation: isMatch is computed, nothing is asserted
SequenceValidationV1 ==
    /\ pc = "sequenceV1"
    /\ processedReads' =
          [r \in 1..nReads |-> ProcessedRead(reads[r], isReversed[r])]
    /\ seqMatch' =
          [r \in 1..nReads |->
              SequenceMatchV1(processedReads'[r], alignedReads[r],
                              readLens[r], maxAlnLen)]
    /\ pc' = "scoreV1"
    /\ UNCHANGED <<params, inputs, stage2, stage3, valid, failed, pairVars,
                   dpVars, rcVars, auxVars, viralVars>>

\* 2) score validation: scoreValid <== scoreCheck.out
ScoreValidationV1 ==
    /\ pc = "scoreV1"
    /\ LET pairs == PairLoop(1, 2, nReads)
           sums  == ScoreAccumulatorV1(alignedReads, pairs, Len(pairs))
       IN  /\ pairScores' =
                 [p \in {pairs[k] : k \in 1..Len(pairs)} |->
                     PairScoreV1(alignedReads[p[1]], alignedReads[p[2]],
                                 maxAlnLen)]
           /\ pairScoreSignals' =
                 [k \in 1..Len(pairs) |-> pairScores'[pairs[k]]]
           /\ scoreAccumulator' = sums
           /\ totalScore' = sums[NumPairs(nReads) + 1]
    /\ scoreCheck' = IsEqual(totalScore', expectedScore)
    /\ pc' = "countV1"
    /\ UNCHANGED <<params, inputs, stage1, stage3, valid, failed, pairVars,
                   dpVars, rcVars, auxVars, viralVars>>

\* 3) per column and base: count the reads, compare with the threshold
MajorityCountingV1 ==
    /\ pc = "countV1"
    /\ baseCounts' = [pos \in 1..maxAlnLen |-> BaseCounts(alignedReads, pos)]
    /\ majorityChk' =
          [pos \in 1..maxAlnLen |->
              [base \in Bases |->
                  MajorityCheck(threshold, baseCounts'[pos][base])]]
    /\ pc' = "consensusV1"
    /\ UNCHANGED <<params, inputs, stage1, stage2, validConsensus, valid,
                   failed, pairVars, dpVars, rcVars, auxVars, viralVars>>

\* assemble the final consensus: consensus[pos] <== consensusBase
ConsensusGenerationV1 ==
    /\ pc = "consensusV1"
    /\ consensus' = [pos \in 1..maxAlnLen |-> ConsensusBase(majorityChk[pos])]
    /\ pc' = "outputV1"
    /\ UNCHANGED <<params, reads, readLens, expectedScore, alignedReads,
                   isReversed, startPos, stage1, stage2, stage3, valid,
                   failed, pairVars, dpVars, rcVars, auxVars, viralVars>>

\* valid <== scoreCheck.out; alignmentScore <== totalScore
OutputV1 ==
    /\ pc = "outputV1"
    /\ valid' = scoreCheck
    /\ alignmentScore' = totalScore
    /\ pc' = "doneV1"
    /\ UNCHANGED <<params, inputs, stage1, stage2, stage3, failed, testCase,
                   firstRun, pairVars, dpVars, rcVars, viralVars>>

(* ------------- a second evaluation with another startPos --------------- *)
\* every signal and output of the evaluation that just ended
Signals ==
    [failed |-> failed, processedReads |-> processedReads,
     seqMatch |-> seqMatch, pairScores |-> pairScores,
     pairScoreSignals |-> pairScoreSignals,
     scoreAccumulator |-> scoreAccumulator, totalScore |-> totalScore,
     scoreCheck |-> scoreCheck, baseCounts |-> baseCounts,
     majorityChk |-> majorityChk, validConsensus |-> validConsensus,
     consensus |-> consensus, valid |-> valid,
     alignmentScore |-> alignmentScore]

StartPositions(nr) == [1..nr -> 0..MaxStart]

\* the same circuit is evaluated again on an input that differs from the
\* first one in startPos only; the first evaluation's signals are kept
EvaluateAgain ==
    /\ pc \in {"done", "doneV1"}
    /\ firstRun = <<>>
    /\ firstRun' = Signals
    /\ startPos' \in StartPositions(nReads) \ {startPos}
    /\ pc' = IF pc = "done" THEN "sequence" ELSE "sequenceV1"
    /\ consensus' = IF pc = "done" THEN consensus ELSE <<>>
    /\ processedReads' = <<>> /\ seqMatch' = <<>>
    /\ pairScores' = <<>> /\ pairScoreSignals' = <<>>
    /\ scoreAccumulator' = <<>> /\ totalScore' = 0 /\ scoreCheck' = 0
    /\ baseCounts' = <<>> /\ majorityChk' = <<>> /\ validConsensus' = <<>>
    /\ valid' = 0 /\ failed' = {} /\ alignmentScore' = 0
    /\ UNCHANGED <<params, reads, readLens, expectedScore, alignedReads,
                   isReversed, testCase, pairVars, dpVars, rcVars, viralVars>>

\* the checked-consensus circuit is evaluated once more: the first
\* evaluation's signals are kept and every signal is unassigned again
StartOver ==
    /\ pc = "done"
    /\ firstRun = <<>>
    /\ firstRun' = Signals
    /\ pc' = "sequence"
    /\ processedReads' = <<>> /\ seqMatch' = <<>>
    /\ pairScores' = <<>> /\ pairScoreSignals' = <<>>
    /\ scoreAccumulator' = <<>> /\ totalScore' = 0 /\ scoreCheck' = 0
    /\ baseCounts' = <<>> /\ majorityChk' = <<>> /\ validConsensus' = <<>>
    /\ valid' = 0 /\ failed' = {}
    /\ UNCHANGED <<params, expectedScore, consensus, testCase,
                   alignmentScore, pairVars, dpVars, rcVars, viralVars>>

\* the orders in which nr reads can be supplied
ReadOrders(nr) ==
    {f \in [1..nr -> 1..nr] : \A i, j \in 1..nr : i # j => f[i] # f[j]}

\* the second input supplies the same reads in another order: reads,
\* readLens, alignedReads, isReversed and startPos are permuted together
EvaluatePermuted ==
    /\ StartOver
    /\ \E f \in ReadOrders(nReads) \ {[r \in 1..nReads |-> r]} :
          /\ reads' = [r \in 1..nReads |-> reads[f[r]]]
          /\ readLens' = [r \in 1..nReads |-> readLens[f[r]]]
          /\ alignedReads' = [r \in 1..nReads |-> alignedReads[f[r]]]
          /\ isReversed' = [r \in 1..nReads |-> isReversed[f[r]]]
          /\ startPos' = [r \in 1..nReads |-> startPos[f[r]]]

\* the read contents a second input may hold: padding or the last base
OtherReads(nr, sLen) == [1..nr -> [1..sLen -> {GAP, NumBases}]]

\* the second input differs from the first in reads or isReversed only
EvaluateOtherReads ==
    /\ StartOver
    /\ reads' \in OtherReads(nReads, maxSeqLen)
    /\ isReversed' \in [1..nReads -> {0, 1}]
    /\ reads' # reads \/ isReversed' # isReversed
    /\ UNCHANGED <<readLens, alignedReads, startPos>>

(* --------------------------- PairScore(alnLen) -------------------------- *)
\* one iteration of the loop: scorer[i] and acc[i + 1]
ScoreColumn ==
    /\ pairPc = "columns"
    /\ Len(scorer) < alnLen
    /\ LET i == Len(scorer) + 1
       IN  /\ scorer' = Append(scorer,
                            ScoringSystem(pairAln[1][i], pairAln[2][i]))
           /\ acc' = Append(acc, acc[i] + scorer'[i].y)
    /\ UNCHANGED <<alnLen, pairAln, score, pairPc, consVars, dpVars, rcVars,
                   auxVars, viralVars>>

\* score <== acc[alnLen]
PairOutput ==
    /\ pairPc = "columns"
    /\ Len(scorer) = alnLen
    /\ score' = acc[alnLen + 1]
    /\ pairPc' = "done"
    /\ UNCHANGED <<alnLen, pairAln, scorer, acc, consVars, dpVars, rcVars,
                   auxVars, viralVars>>

(* --------------------------- pair_aln_seq(n, m) ------------------------- *)
\* mutant: any base of the alignment consumes the read's base
T1AnyBase(e, r, c) ==
    LET c0 == IsZero(c)
        r0 == IsZero(r)
        t1 == (1 - c0) * (1 - r0)
        t2 == c0 * (1 - r0)
    IN  [e |-> e, es |-> e * r0, ese |-> e * t1, ee |-> e * t2]

T1(e, r, c) ==
    LET eq == IsEqual(c, r)
        c0 == IsZero(c)
        r0 == IsZero(r)
        t1 == eq * (1 - r0)
        t2 == c0 * (1 - r0)
    IN  [e |-> e, es |-> e * r0, ese |-> e * t1, ee |-> e * t2]

T2(e, c) == [e |-> e, ee |-> e * IsZero(c)]

\* the input e of a[i][j], j > 1, from the three cells before it
FillE(tbl, i, j) ==
    tbl[<<i, j - 1>>].ee
    + (IF i = 1 THEN 0 ELSE tbl[<<i - 1, j - 1>>].ese)
    + (IF i = 1 THEN 0 ELSE tbl[<<i - 1, j>>].es)

\* the input e of b[i] from b[i - 1] and the last row of the table
TermE(tbl, trm, i) ==
    IF i = 1 THEN 0
    ELSE trm[i - 1].ee + tbl[<<n, i>>].es + tbl[<<n, i - 1>>].ese

\* the input c of a cell in column j: the alignment, then one gap
AlnAt(j) == IF j = m + 1 THEN 0 ELSE aln[j]

\* check_aln_seq: b[i] = b[i-1] * t[i]
RECURSIVE CheckAlnSeq(_, _)
CheckAlnSeq(t, nseq) ==
    IF nseq = 1 THEN t[1] ELSE CheckAlnSeq(t, nseq - 1) * t[nseq]

Extend(f, k, v) == [x \in DOMAIN f \cup {k} |-> IF x = k THEN v ELSE f[x]]

FirstColumnCell ==
    /\ dpPc = "first"
    /\ a' = Extend(a, <<row, 1>>,
                   T1(IF row = 1 THEN 1 ELSE 0, seq[row], aln[1]))
    /\ IF row < n
         THEN row' = row + 1 /\ UNCHANGED <<col, dpPc>>
         ELSE row' = 1 /\ col' = 2 /\ dpPc' = "fill"
    /\ UNCHANGED <<n, m, seq, aln, b, out, y, consVars, pairVars,
                 rcVars, auxVars, viralVars>>

FillCell ==
    /\ dpPc = "fill"
    /\ a' = Extend(a, <<row, col>>,
                   T1(FillE(a, row, col), seq[row], AlnAt(col)))
    /\ IF col < m + 1
         THEN col' = col + 1 /\ UNCHANGED <<row, dpPc>>
         ELSE IF row < n
                THEN row' = row + 1 /\ col' = 2 /\ UNCHANGED dpPc
                ELSE row' = 1 /\ col' = 1 /\ dpPc' = "terminal"
    /\ UNCHANGED <<n, m, seq, aln, b, out, y, consVars, pairVars,
                 rcVars, auxVars, viralVars>>

TerminalCell ==
    /\ dpPc = "terminal"
    /\ b' = Append(b, T2(TermE(a, b, col), AlnAt(col)))
    /\ IF col < m + 1
         THEN col' = col + 1 /\ UNCHANGED dpPc
         ELSE col' = 1 /\ dpPc' = "out"
    /\ UNCHANGED <<n, m, seq, aln, a, out, y, row, consVars, pairVars,
                 rcVars, auxVars, viralVars>>

\* out <== b[m-1].ee; check_aln_seq: y <== b[nseq - 1]
DPOutput ==
    /\ dpPc = "out"
    /\ out' = b[m + 1].ee
    /\ y' = CheckAlnSeq(<<out'>>, 1)
    /\ dpPc' = "done"
    /\ UNCHANGED <<n, m, seq, aln, a, b, row, col, consVars, pairVars,
                 rcVars, auxVars, viralVars>>

(* ----------- Consensus(nReads, seqLen, alnLen, threshold), DP ----------- *)
\* The variant that aligns each read to its row by pair_aln_seq. Its
\* signals are held in the variables of the checked-consensus circuit:
\* seqLen in maxSeqLen, alnLen in maxAlnLen, alnReads in alignedReads,
\* chk.t in seqMatch, chk.y in y, countBase in baseCounts, mc.ok in
\* majorityChk.

\* out of one pair_aln_seq(Len(sq), Len(al)) component
PairAlnSeq(sq, al) ==
    LET rows == Len(sq)
        cols == Len(al) + 1
        cAt(j) == IF j = cols THEN 0 ELSE al[j]
        cell[p \in (1..rows) \X (1..cols)] ==
            IF p[2] = 1
              THEN T1(IF p[1] = 1 THEN 1 ELSE 0, sq[p[1]], al[1])
              ELSE T1(FillE(cell, p[1], p[2]), sq[p[1]], cAt(p[2]))
        last[i \in 1..cols] ==
            T2(IF i = 1 THEN 0
               ELSE last[i - 1].ee + cell[<<rows, i>>].es
                    + cell[<<rows, i - 1>>].ese,
               cAt(i))
    IN  last[cols].ee

\* countBase[b][i] for the four bases of column pos
CountBase(al, pos) ==
    [base \in Bases |->
        CountMatches([r \in 1..nReads |-> IsEqual(al[r][pos], base)], nReads)]

\* var sumOk of column pos
SumOk(ok) == ok[1] + ok[2] + ok[3] + ok[4]

\* var acc of column pos: b runs over 0..3
AccOk(ok) == 0 * ok[1] + 1 * ok[2] + 2 * ok[3] + 3 * ok[4]

\* 1) chk = check_aln_seq(nReads, seqLen, alnLen); chk.y === 1
AlignmentCheckDP ==
    /\ pc = "alignDP"
    /\ seqMatch' =
          [r \in 1..nReads |-> PairAlnSeq(reads[r], alignedReads[r])]
    /\ y' = CheckAlnSeq(seqMatch', nReads)
    /\ failed' = failed \cup (IF y' = 1 THEN {} ELSE {<<"chk.y", 0>>})
    /\ pc' = "countDP"
    /\ UNCHANGED <<params, inputs, processedReads, stage2, stage3, valid,
                   n, m, seq, aln, a, b, out, row, col, dpPc, pairVars,
                   rcVars, auxVars, viralVars>>

\* 2), 3) matches, countBase, mc[i][b]: lt.out === 1 inside MajorityCheck
\* and mc[i][b].ok === 1 in Consensus
MajorityCheckDP ==
    /\ pc = "countDP"
    /\ baseCounts' = [pos \in 1..maxAlnLen |-> CountBase(alignedReads, pos)]
    /\ majorityChk' =
          [pos \in 1..maxAlnLen |->
              [base \in Bases |->
                  MajorityCheck(threshold, baseCounts'[pos][base])]]
    /\ failed' = failed
          \cup {<<"lt.out", p>> :
                  p \in {q \in (1..maxAlnLen) \X Bases :
                            majorityChk'[q[1]][q[2]] # 1}}
          \cup {<<"mc.ok", p>> :
                  p \in {q \in (1..maxAlnLen) \X Bases :
                            majorityChk'[q[1]][q[2]] # 1}}
    /\ pc' = "assembleDP"
    /\ UNCHANGED <<params, inputs, stage1, stage2, validConsensus, valid,
                   pairVars, dpVars, rcVars, auxVars, viralVars>>

\* 4) sumOk === 1; consensus[i] <== acc
ConsensusAssemblyDP ==
    /\ pc = "assembleDP"
    /\ failed' = failed
          \cup {<<"sumOk", pos>> :
                  pos \in {q \in 1..maxAlnLen : SumOk(majorityChk[q]) # 1}}
    /\ consensus' = [pos \in 1..maxAlnLen |-> AccOk(majorityChk[pos])]
    /\ pc' = "outputDP"
    /\ UNCHANGED <<params, reads, readLens, expectedScore, alignedReads,
                   isReversed, startPos, stage1, stage2, stage3, valid,
                   pairVars, dpVars, rcVars, auxVars, viralVars>>

\* 5) valid <== chk.y
OutputDP ==
    /\ pc = "outputDP"
    /\ valid' = y
    /\ pc' = "doneDP"
    /\ UNCHANGED <<params, inputs, stage1, stage2, stage3, failed,
                   pairVars, dpVars, rcVars, auxVars, viralVars>>

(* ---------------------- ViralConsensus(L, NUM_READS) -------------------- *)
\* The five count slots of a position are indexed 0..4 as in the source;
\* reads and positions are indexed from 1.
Slots == 0..NumBases

\* BaseProcessor: count <== is_high_qual * (1 - in_primer)
BaseProcessor(min_qual, qual, in_primer) ==
    GreaterEqThan(qual, min_qual) * (1 - in_primer)

\* match_counts[r][pos][base]
MatchCount(vin, r, pos, base) ==
    IsEqual(vin.bases[r][pos], base)
    * BaseProcessor(vin.min_qual, vin.quals[r][pos], vin.primer_regions[pos])

\* var sum over the first r reads
RECURSIVE SumMatchCounts(_, _, _, _)
SumMatchCounts(vin, r, pos, base) ==
    IF r = 0 THEN 0
    ELSE SumMatchCounts(vin, r - 1, pos, base) + MatchCount(vin, r, pos, base)

\* counts[base][pos]
ViralCounts(vin) ==
    [base \in Slots |->
        [pos \in 1..vin.L |-> SumMatchCounts(vin, vin.NUM_READS, pos, base)]]

\* mutant: a later base also overtakes the running best on an equal count
IsBetterOrEqual(count, best) == GreaterEqThan(count, best)

\* is_better[pos][b-1].out
IsBetter(count, best) == GreaterThan(count, best)

\* the signals of ViralConsensus, none assigned
NoSignals ==
    [slot |-> 0, counts |-> <<>>, total_depth |-> <<>>,
     best_count_int |-> <<>>, best_base_int |-> <<>>, is_better |-> <<>>,
     best_count |-> <<>>, best_base |-> <<>>, depth_ok |-> <<>>,
     freq_ok |-> <<>>, has_pass |-> <<>>, is_pass |-> <<>>,
     pass_value |-> <<>>, fail_value |-> <<>>, one_minus_is_pass |-> <<>>,
     pass_term |-> <<>>, fail_term |-> <<>>, consensus |-> <<>>]

Positions == 1..viralIn.L

\* eq, processors, match_counts, counts
CountBases ==
    /\ viralPc = "count"
    /\ viral' = [viral EXCEPT !.counts = ViralCounts(viralIn)]
    /\ viralPc' = "first"
    /\ UNCHANGED <<viralIn, consVars, pairVars, dpVars, rcVars, auxVars>>

\* total_depth; best_count_int[pos][0] <-- counts[0][pos];
\* best_base_int[pos][0] <-- 0
ScanFirst ==
    /\ viralPc = "first"
    /\ viral' =
          [viral EXCEPT
              !.total_depth =
                  [pos \in Positions |->
                      viral.counts[0][pos] + viral.counts[1][pos]
                      + viral.counts[2][pos] + viral.counts[3][pos]
                      + viral.counts[4][pos]],
              !.best_count_int =
                  [pos \in Positions |-> [k \in {0} |-> viral.counts[0][pos]]],
              !.best_base_int = [pos \in Positions |-> [k \in {0} |-> 0]],
              !.is_better = [pos \in Positions |-> <<>>],
              !.slot = 1]
    /\ viralPc' = "scan"
    /\ UNCHANGED <<viralIn, consVars, pairVars, dpVars, rcVars, auxVars>>

\* one iteration b of the comparison loop, as the witness program runs it
ScanNext ==
    /\ viralPc = "scan"
    /\ LET slot == viral.slot
           better ==
               [pos \in Positions |->
                   IsBetter(viral.counts[slot][pos],
                            viral.best_count_int[pos][slot - 1])]
       IN  viral' =
              [viral EXCEPT
                  !.is_better =
                      [pos \in Positions |->
                          Append(viral.is_better[pos], better[pos])],
                  !.best_count_int =
                      [pos \in Positions |->
                          Extend(viral.best_count_int[pos], slot,
                                 better[pos] * viral.counts[slot][pos]
                                 + (1 - better[pos])
                                   * viral.best_count_int[pos][slot - 1])],
                  !.best_base_int =
                      [pos \in Positions |->
                          Extend(viral.best_base_int[pos], slot,
                                 better[pos] * slot
                                 + (1 - better[pos])
                                   * viral.best_base_int[pos][slot - 1])],
                  !.slot = slot + 1]
    /\ viralPc' = IF viral.slot = NumBases THEN "best" ELSE "scan"
    /\ UNCHANGED <<viralIn, consVars, pairVars, dpVars, rcVars, auxVars>>

\* best_count, best_base, depth_ok, freq_ok, has_pass, is_pass
Thresholds ==
    /\ viralPc = "best"
    /\ LET count == [pos \in Positions |-> viral.best_count_int[pos][4]]
           depth ==
               [pos \in Positions |->
                   GreaterEqThan(count[pos], viralIn.min_depth)]
           freq ==
               [pos \in Positions |->
                   GreaterEqThan(count[pos] * 100,
                                 viral.total_depth[pos] * viralIn.min_freq)]
           pass == [pos \in Positions |-> depth[pos] * freq[pos]]
       IN  viral' =
              [viral EXCEPT
                  !.best_count = count,
                  !.best_base =
                      [pos \in Positions |-> viral.best_base_int[pos][4]],
                  !.depth_ok = depth, !.freq_ok = freq,
                  !.has_pass = pass, !.is_pass = pass]
    /\ viralPc' = "consensus"
    /\ UNCHANGED <<viralIn, consVars, pairVars, dpVars, rcVars, auxVars>>

\* pass_value .. consensus, as the witness program computes them;
\* pass_term + fail_term === consensus holds by construction
ConsensusTerms ==
    /\ viralPc = "consensus"
    /\ LET passTerm ==
               [pos \in Positions |->
                   viral.is_pass[pos] * viral.best_base[pos]]
           failTerm ==
               [pos \in Positions |->
                   (1 - viral.is_pass[pos]) * viralIn.ambig]
       IN  viral' =
              [viral EXCEPT
                  !.pass_value = viral.best_base,
                  !.fail_value = [pos \in Positions |-> viralIn.ambig],
                  !.one_minus_is_pass =
                      [pos \in Positions |-> 1 - viral.is_pass[pos]],
                  !.pass_term = passTerm, !.fail_term = failTerm,
                  !.consensus =
                      [pos \in Positions |-> passTerm[pos] + failTerm[pos]]]
    /\ viralPc' = "done"
    /\ UNCHANGED <<viralIn, consVars, pairVars, dpVars, rcVars, auxVars>>

\* the values a prover may give to a signal assigned with <--
HintValues == 0..MaxHint

\* A prover's last iteration: best_count_int[pos][4] and
\* best_base_int[pos][4] are assigned with <-- and no constraint relates
\* them to the counts, so they take any value; is_better is constrained.
ScanLastHinted ==
    /\ viralPc = "scan"
    /\ viral.slot = NumBases
    /\ \E count \in [Positions -> HintValues],
          base \in [Positions -> HintValues] :
          viral' =
              [viral EXCEPT
                  !.is_better =
                      [pos \in Positions |->
                          Append(viral.is_better[pos],
                                 IsBetter(viral.counts[4][pos],
                                          viral.best_count_int[pos][3]))],
                  !.best_count_int =
                      [pos \in Positions |->
                          Extend(viral.best_count_int[pos], 4, count[pos])],
                  !.best_base_int =
                      [pos \in Positions |->
                          Extend(viral.best_base_int[pos], 4, base[pos])],
                  !.slot = 5]
    /\ viralPc' = "best"
    /\ UNCHANGED <<viralIn, consVars, pairVars, dpVars, rcVars, auxVars>>

\* A prover's consensus: pass_term and fail_term are assigned with <--
\* and take any value; consensus is their sum, which is all that
\* pass_term + fail_term === consensus asks.
ConsensusHinted ==
    /\ viralPc = "consensus"
    /\ \E passTerm \in [Positions -> HintValues],
          failTerm \in [Positions -> HintValues] :
          viral' =
              [viral EXCEPT
                  !.pass_value = viral.best_base,
                  !.fail_value = [pos \in Positions |-> viralIn.ambig],
                  !.one_minus_is_pass =
                      [pos \in Positions |-> 1 - viral.is_pass[pos]],
                  !.pass_term = passTerm, !.fail_term = failTerm,
                  !.consensus =
                      [pos \in Positions |-> passTerm[pos] + failTerm[pos]]]
    /\ viralPc' = "done"
    /\ UNCHANGED <<viralIn, consVars, pairVars, dpVars, rcVars, auxVars>>

(* ----------------------- ReverseComplementSeq(seqLen) ------------------- *)
\* the instance on the input
Reverse ==
    /\ rcPc = "first"
    /\ rcOut' = ReverseComplementSeq(rcIn, rcLen)
    /\ rcPc' = "second"
    /\ UNCHANGED <<rcLen, rcIn, rcBack, consVars, pairVars, dpVars, auxVars, viralVars>>

\* the instance on the first one's output
ReverseAgain ==
    /\ rcPc = "second"
    /\ rcBack' = ReverseComplementSeq(rcOut, rcLen)
    /\ rcPc' = "done"
    /\ UNCHANGED <<rcLen, rcIn, rcOut, consVars, pairVars, dpVars, auxVars, viralVars>>

(* ---------------- input builders (the JavaScript generators) ------------ *)
\* padArray(arr, len): right-pad with gaps
PadArray(arr, len) ==
    arr \o [i \in 1..(IF len > Len(arr) THEN len - Len(arr) ELSE 0) |-> GAP]

\* seq.replace(/-/g, ''): the symbols of a row that are not gaps, in order
RECURSIVE StripGaps(_, _)
StripGaps(rw, len) ==
    IF len = 0 THEN <<>>
    ELSE IF rw[len] = GAP THEN StripGaps(rw, len - 1)
         ELSE Append(StripGaps(rw, len - 1), rw[len])

\* REV_MAP and reverseComplement(encoded)
RevMap(base) == CASE base = 1 -> 4 [] base = 2 -> 3 [] base = 3 -> 2
                  [] base = 4 -> 1 [] base = 0 -> 0

JsReverseComplement(encoded) ==
    [i \in 1..Len(encoded) |-> RevMap(encoded[Len(encoded) + 1 - i])]

\* pairScore(a, b) of witness_generator.js over columns 1..i
RECURSIVE JsPairScore(_, _, _)
JsPairScore(r1, r2, i) ==
    IF i = 0 THEN 0
    ELSE LET x == r1[i]
             z == r2[i]
             before == JsPairScore(r1, r2, i - 1)
         IN  IF x = 0 /\ z = 0 THEN before
             ELSE IF x = z /\ x # 0 THEN before + 1
             ELSE before - 1

\* calculatePairwiseScore(seq1, seq2) of test_equivalence_partitions.js
\* over columns 1..i; the loop runs to the shorter of the two lengths
RECURSIVE PairwiseScoreTo(_, _, _)
PairwiseScoreTo(seq1, seq2, i) ==
    IF i = 0 THEN 0
    ELSE IF seq1[i] = 0 /\ seq2[i] = 0 THEN PairwiseScoreTo(seq1, seq2, i - 1)
    ELSE IF seq1[i] # 0 /\ seq2[i] # 0 /\ seq1[i] = seq2[i]
         THEN PairwiseScoreTo(seq1, seq2, i - 1) + 1
    ELSE PairwiseScoreTo(seq1, seq2, i - 1) - 1

\* mutant: only the columns in which both rows hold a base are scored
RECURSIVE BasesOnlyScoreTo(_, _, _)
BasesOnlyScoreTo(seq1, seq2, i) ==
    IF i = 0 THEN 0
    ELSE IF seq1[i] = 0 \/ seq2[i] = 0 THEN BasesOnlyScoreTo(seq1, seq2, i - 1)
    ELSE IF seq1[i] = seq2[i] THEN BasesOnlyScoreTo(seq1, seq2, i - 1) + 1
    ELSE BasesOnlyScoreTo(seq1, seq2, i - 1) - 1

CalculatePairwiseScoreBasesOnly(seq1, seq2) ==
    LET minLen == IF Len(seq1) < Len(seq2) THEN Len(seq1) ELSE Len(seq2)
    IN  BasesOnlyScoreTo(seq1, seq2, minLen)

CalculatePairwiseScore(seq1, seq2) ==
    LET minLen == IF Len(seq1) < Len(seq2) THEN Len(seq1) ELSE Len(seq2)
    IN  PairwiseScoreTo(seq1, seq2, minLen)

\* expectedScore: the double loop over pairs i < j
RECURSIVE SumPairs(_, _, _)
SumPairs(al, pairs, k) ==
    IF k = 0 THEN 0
    ELSE SumPairs(al, pairs, k - 1)
         + JsPairScore(al[pairs[k][1]], al[pairs[k][2]], Len(al[1]))

GenExpectedScore(al) ==
    LET pairs == PairLoop(1, 2, Len(al)) IN SumPairs(al, pairs, Len(pairs))

\* the scan over A, C, G, T: <<maxCount, candidateBase>> after base k
RECURSIVE Candidate(_, _)
Candidate(counts, k) ==
    IF k = 0 THEN <<0, GAP>>
    ELSE LET prev == Candidate(counts, k - 1)
         IN  IF counts[k] > prev[1] THEN <<counts[k], k>> ELSE prev

\* consensus of witness_generator.js
GenConsensus(al, thr) ==
    [pos \in 1..Len(al[1]) |->
        LET counts == [base \in Bases |->
                          Cardinality({r \in 1..Len(al) : al[r][pos] = base})]
            best   == Candidate(counts, NumBases)
        IN  IF best[1] > thr THEN best[2] ELSE GAP]

(* --------- the generator of the consensus-computing circuit's input ----- *)
\* calculatePairwiseScore(aln1, aln2) over columns 1..i: only the columns
\* in which both rows hold a base are scored
RECURSIVE GenPairwiseScoreTo(_, _, _)
GenPairwiseScoreTo(aln1, aln2, i) ==
    IF i = 0 THEN 0
    ELSE IF aln1[i] # 0 /\ aln2[i] # 0
         THEN IF aln1[i] = aln2[i]
              THEN GenPairwiseScoreTo(aln1, aln2, i - 1) + 1
              ELSE GenPairwiseScoreTo(aln1, aln2, i - 1) - 1
    ELSE GenPairwiseScoreTo(aln1, aln2, i - 1)

GenCalculatePairwiseScore(aln1, aln2) ==
    GenPairwiseScoreTo(aln1, aln2, Len(aln1))

\* calculateMSAScore(alignedReads)
RECURSIVE MSAScoreTo(_, _, _)
MSAScoreTo(al, pairs, k) ==
    IF k = 0 THEN 0
    ELSE MSAScoreTo(al, pairs, k - 1)
         + GenCalculatePairwiseScore(al[pairs[k][1]], al[pairs[k][2]])

CalculateMSAScore(al) ==
    LET pairs == PairLoop(1, 2, Len(al)) IN MSAScoreTo(al, pairs, Len(pairs))

(* ------------- prepareInput (test_equivalence_partitions.js) ------------ *)
\* a string is the sequence of its characters
BASE == [ch \in {"-", "A", "C", "G", "T"} |->
            CASE ch = "-" -> 0 [] ch = "A" -> 1 [] ch = "C" -> 2
              [] ch = "G" -> 3 [] ch = "T" -> 4]

\* encodeSequence(str): [...str].map(c => BASE[c] || 0)
EncodeSequence(str) ==
    [i \in 1..Len(str) |->
        IF str[i] \in DOMAIN BASE THEN BASE[str[i]] ELSE 0]

\* str.padEnd(len, ch)
PadEnd(str, len, ch) ==
    str \o [i \in 1..(IF len > Len(str) THEN len - Len(str) ELSE 0) |-> ch]

\* str.slice(0, end)
Slice(str, end) == SubSeq(str, 1, IF end < Len(str) THEN end ELSE Len(str))

\* str.replace(/-/g, '')
RemoveGaps(str) == SelectSeq(str, LAMBDA ch : ch # "-")

\* the double loop of step 4 over the first k pairs
RECURSIVE PreparedScore(_, _, _)
PreparedScore(al, pairs, k) ==
    IF k = 0 THEN 0
    ELSE PreparedScore(al, pairs, k - 1)
         + CalculatePairwiseScore(al[pairs[k][1]], al[pairs[k][2]])

\* prepareInput(testCase), with its three local constants as parameters
PrepareInput(seqs, nReadsFixed, sLen, aLen) ==
    LET alignedReadsRaw ==
            [k \in 1..Len(seqs) |-> Slice(PadEnd(seqs[k], aLen, "-"), aLen)]
        readsRaw ==
            [k \in 1..Len(seqs) |->
                Slice(PadEnd(RemoveGaps(seqs[k]), sLen, "-"), sLen)]
        dummies ==
            IF Len(seqs) < nReadsFixed THEN nReadsFixed - Len(seqs) ELSE 0
        aligned ==
            [k \in 1..Len(seqs) |-> EncodeSequence(alignedReadsRaw[k])]
            \o [k \in 1..dummies |-> [i \in 1..aLen |-> 0]]
        pairs == PairLoop(1, 2, Len(aligned))
    IN  [reads |->
            [k \in 1..Len(seqs) |-> EncodeSequence(readsRaw[k])]
            \o [k \in 1..dummies |-> [i \in 1..sLen |-> 0]],
         readLens |->
            [k \in 1..Len(seqs) |-> Len(RemoveGaps(seqs[k]))]
            \o [k \in 1..dummies |-> 0],
         expectedScore |-> PreparedScore(aligned, pairs, Len(pairs)),
         alignedReads |-> aligned,
         isReversed |-> [k \in 1..nReadsFixed |-> 0],
         startPos |-> [k \in 1..nReadsFixed |-> 0],
         consensus |-> [i \in 1..aLen |-> 0]]

\* runSingleTest, step 1: the input handed to the witness calculator
RunPrepareInput ==
    /\ pc = "prepare"
    /\ LET input == PrepareInput(testCase, nReads, maxSeqLen, maxAlnLen)
       IN  /\ reads' = input.reads
           /\ readLens' = input.readLens
           /\ expectedScore' = input.expectedScore
           /\ alignedReads' = input.alignedReads
           /\ isReversed' = input.isReversed
           /\ startPos' = input.startPos
           /\ consensus' = input.consensus
    /\ pc' = "sequence"
    /\ UNCHANGED <<params, stage1, stage2, stage3, valid, failed, pairVars,
                   dpVars, rcVars, auxVars, viralVars>>

(* ------------------------------- Init ---------------------------------- *)
IdleCons ==
    /\ nReads = 0 /\ maxSeqLen = 0 /\ maxAlnLen = 0 /\ threshold = 0
    /\ reads = <<>> /\ readLens = <<>> /\ expectedScore = 0
    /\ alignedReads = <<>> /\ isReversed = <<>> /\ startPos = <<>>
    /\ consensus = <<>> /\ pc = "idle"
    /\ processedReads = <<>> /\ seqMatch = <<>>
    /\ pairScores = <<>> /\ pairScoreSignals = <<>>
    /\ scoreAccumulator = <<>> /\ totalScore = 0 /\ scoreCheck = 0
    /\ baseCounts = <<>> /\ majorityChk = <<>> /\ validConsensus = <<>>
    /\ valid = 0 /\ failed = {}

IdlePair ==
    /\ alnLen = 0 /\ pairAln = <<>> /\ scorer = <<>> /\ acc = <<>>
    /\ score = 0 /\ pairPc = "idle"

IdleDP ==
    /\ n = 0 /\ m = 0 /\ seq = <<>> /\ aln = <<>> /\ a = <<>> /\ b = <<>>
    /\ out = 0 /\ y = 0 /\ row = 0 /\ col = 0 /\ dpPc = "idle"

IdleRC ==
    /\ rcLen = 0 /\ rcIn = <<>> /\ rcOut = <<>> /\ rcBack = <<>>
    /\ rcPc = "idle"

IdleAux == testCase = <<>> /\ alignmentScore = 0 /\ firstRun = <<>>

IdleViral == viralIn = <<>> /\ viral = <<>> /\ viralPc = "idle"

\* an instantiation with its input signals; no signal is computed yet
ConsStartAt(nr, sLen, aLen, thr, rds, lens, sc, al, rev, sp, cons) ==
    /\ nReads = nr /\ maxSeqLen = sLen /\ maxAlnLen = aLen /\ threshold = thr
    /\ reads = rds /\ readLens = lens /\ expectedScore = sc
    /\ alignedReads = al /\ isReversed = rev
    /\ startPos = sp
    /\ consensus = cons /\ pc = "sequence"
    /\ processedReads = <<>> /\ seqMatch = <<>>
    /\ pairScores = <<>> /\ pairScoreSignals = <<>>
    /\ scoreAccumulator = <<>> /\ totalScore = 0 /\ scoreCheck = 0
    /\ baseCounts = <<>> /\ majorityChk = <<>> /\ validConsensus = <<>>
    /\ valid = 0 /\ failed = {}

\* the generators' startPos: all zeros
ConsStart(nr, sLen, aLen, thr, rds, lens, sc, al, rev, cons) ==
    ConsStartAt(nr, sLen, aLen, thr, rds, lens, sc, al, rev,
                [r \in 1..nr |-> 0], cons)

\* <<nReads, maxAlnLen>> of the instantiations enumerated exhaustively
Shapes ==
    {sh \in (2..MaxCells) \X (1..MaxCells) : sh[1] * sh[2] <= MaxCells}

Alignments(sh) == [1..sh[1] -> [1..sh[2] -> BaseCodes]]

\* the alignments over the gap and the first MaxBase bases
SmallAlignments(sh) == [1..sh[1] -> [1..sh[2] -> GAP..MaxBase]]

\* the public read of an alignment row, as the generators derive it
ReadOf(rw, sLen, rev) ==
    IF rev = 1 THEN PadArray(JsReverseComplement(StripGaps(rw, Len(rw))), sLen)
    ELSE PadArray(StripGaps(rw, Len(rw)), sLen)

ReadsOf(al, sLen, rev) == [r \in 1..Len(al) |-> ReadOf(al[r], sLen, rev[r])]

LensOf(al) == [r \in 1..Len(al) |-> Len(StripGaps(al[r], Len(al[r])))]

NoneReversed(nr) == [r \in 1..nr |-> 0]

\* generated inputs, every threshold
InitGenerated ==
    \E sh \in Shapes, thr \in 0..MaxThreshold :
      \E al \in Alignments(sh) :
        ConsStart(sh[1], sh[2], sh[2], thr,
                  ReadsOf(al, sh[2], NoneReversed(sh[1])), LensOf(al),
                  GenExpectedScore(al), al, NoneReversed(sh[1]),
                  GenConsensus(al, thr))

\* generated inputs, the first read supplied as its reverse complement
InitReversed ==
    \E sh \in Shapes :
      \E al \in Alignments(sh) :
        LET rev == [r \in 1..sh[1] |-> IF r = 1 THEN 1 ELSE 0]
        IN  ConsStart(sh[1], sh[2], sh[2], MaxThreshold,
                      ReadsOf(al, sh[2], rev), LensOf(al),
                      GenExpectedScore(al), al, rev,
                      GenConsensus(al, MaxThreshold))

\* generated inputs with expectedScore moved by a nonzero amount
InitScore ==
    \E sh \in Shapes :
      \E al \in SmallAlignments(sh),
         d \in ((0 - MaxDelta)..MaxDelta) \ {0} :
        ConsStart(sh[1], sh[2], sh[2], MaxThreshold,
                  ReadsOf(al, sh[2], NoneReversed(sh[1])), LensOf(al),
                  GenExpectedScore(al) + d, al, NoneReversed(sh[1]),
                  GenConsensus(al, MaxThreshold))

\* generated inputs with any value as the consensus of one column
InitConsensus ==
    \E sh \in Shapes, thr \in 0..MaxThreshold :
      \E al \in SmallAlignments(sh), c \in 1..sh[2], v \in 0..MaxSymbol :
        ConsStart(sh[1], sh[2], sh[2], thr,
                  ReadsOf(al, sh[2], NoneReversed(sh[1])), LensOf(al),
                  GenExpectedScore(al), al, NoneReversed(sh[1]),
                  [GenConsensus(al, thr) EXCEPT ![c] = v])

\* generated inputs with any declared length for the first read
InitReadLen ==
    \E sh \in Shapes :
      \E al \in SmallAlignments(sh), len \in 0..sh[2] :
        ConsStart(sh[1], sh[2], sh[2], MaxThreshold,
                  ReadsOf(al, sh[2], NoneReversed(sh[1])),
                  [LensOf(al) EXCEPT ![1] = len],
                  GenExpectedScore(al), al, NoneReversed(sh[1]),
                  GenConsensus(al, MaxThreshold))

\* generated inputs with any content for the first read
InitReadContent ==
    \E sh \in Shapes :
      \E al \in SmallAlignments(sh), rd \in [1..sh[2] -> BaseCodes] :
        ConsStart(sh[1], sh[2], sh[2], MaxThreshold,
                  [ReadsOf(al, sh[2], NoneReversed(sh[1])) EXCEPT ![1] = rd],
                  LensOf(al),
                  GenExpectedScore(al), al, NoneReversed(sh[1]),
                  GenConsensus(al, MaxThreshold))

\* generated inputs whose first alignment cell holds a value that is no
\* base code (one beyond the bases, or p - 1)
InitOutOfRange ==
    \E sh \in Shapes :
      \E small \in SmallAlignments(sh), v \in FieldSample \ BaseCodes :
        LET al == [small EXCEPT ![1][1] = v]
        IN  ConsStart(sh[1], sh[2], sh[2], MaxThreshold,
                      ReadsOf(al, sh[2], NoneReversed(sh[1])), LensOf(al),
                      GenExpectedScore(al), al, NoneReversed(sh[1]),
                      GenConsensus(al, MaxThreshold))

\* Consensus(3, 4, 4, 1) on ACGT / ACGT / ACGA, expectedScore 8 or 7
ScenarioReads == << <<1, 2, 3, 4>>, <<1, 2, 3, 4>>, <<1, 2, 3, 1>> >>

InitScenario ==
    \E sc \in {8, 7} :
        ConsStart(3, 4, 4, 1, ScenarioReads, <<4, 4, 4>>, sc, ScenarioReads,
                  <<0, 0, 0>>, <<1, 2, 3, 4>>)

\* the preset's Consensus(5, ., ., 2) on one column over the first bases
InitPresetColumn ==
    \E al \in [1..5 -> [1..1 -> 1..MaxBase]] :
        ConsStart(5, 1, 1, 2, ReadsOf(al, 1, NoneReversed(5)), LensOf(al),
                  GenExpectedScore(al), al, NoneReversed(5),
                  GenConsensus(al, 2))

Init ==
    /\ \/ InitGenerated
       \/ InitPresetColumn
       \/ InitReversed
       \/ InitScore
       \/ InitConsensus
       \/ InitReadLen
       \/ InitReadContent
       \/ InitOutOfRange
       \/ InitScenario
    /\ IdlePair
    /\ IdleDP
    /\ IdleRC
    /\ IdleViral
    /\ IdleAux

Next ==
    \/ SequenceValidation
    \/ ScoreValidation
    \/ MajorityCounting
    \/ ConsensusValidation
    \/ Output

Spec == Init /\ [][Next]_vars

\* PairScore(MaxPairLen) on every pair of rows over the field sample
InitPair ==
    /\ alnLen = MaxPairLen
    /\ pairAln \in [1..2 -> [1..MaxPairLen -> FieldSample]]
    /\ scorer = <<>> /\ acc = <<0>> /\ score = 0 /\ pairPc = "columns"
    /\ IdleCons
    /\ IdleDP
    /\ IdleRC
    /\ IdleViral
    /\ IdleAux

NextPair == ScoreColumn \/ PairOutput

SpecPair == InitPair /\ [][NextPair]_vars

\* pair_aln_seq(n, m) on every read and alignment over the base codes
InitDP ==
    /\ n \in 1..MaxDP /\ m \in 1..MaxDP
    /\ seq \in [1..n -> BaseCodes]
    /\ aln \in [1..m -> BaseCodes]
    /\ a = <<>> /\ b = <<>> /\ out = 0 /\ y = 0
    /\ row = 1 /\ col = 1 /\ dpPc = "first"
    /\ IdleCons
    /\ IdlePair
    /\ IdleRC
    /\ IdleViral
    /\ IdleAux

NextDP == FirstColumnCell \/ FillCell \/ TerminalCell \/ DPOutput

SpecDP == InitDP /\ [][NextDP]_vars

\* the DP variant's parameters and inputs; the inputs it does not have
\* (readLens, expectedScore, isReversed, startPos) are left empty
StartDPConsensus(nr, sLen, aLen, thr, rds, al) ==
    /\ nReads = nr /\ maxSeqLen = sLen /\ maxAlnLen = aLen /\ threshold = thr
    /\ reads = rds /\ alignedReads = al
    /\ readLens = <<>> /\ expectedScore = 0
    /\ isReversed = <<>> /\ startPos = <<>>
    /\ consensus = <<>> /\ pc = "alignDP"
    /\ processedReads = <<>> /\ seqMatch = <<>>
    /\ pairScores = <<>> /\ pairScoreSignals = <<>>
    /\ scoreAccumulator = <<>> /\ totalScore = 0 /\ scoreCheck = 0
    /\ baseCounts = <<>> /\ majorityChk = <<>> /\ validConsensus = <<>>
    /\ valid = 0 /\ failed = {}

\* every small alignment with the reads it aligns, every threshold
InitDPAligned ==
    \E sh \in Shapes, thr \in 0..MaxThreshold :
      \E al \in SmallAlignments(sh) :
        StartDPConsensus(sh[1], sh[2], sh[2], thr,
                         ReadsOf(al, sh[2], NoneReversed(sh[1])), al)

\* the same with any first read
InitDPAnyRead ==
    \E sh \in Shapes :
      \E al \in SmallAlignments(sh), rd \in [1..sh[2] -> GAP..MaxBase] :
        StartDPConsensus(sh[1], sh[2], sh[2], MaxThreshold,
                         [ReadsOf(al, sh[2], NoneReversed(sh[1]))
                             EXCEPT ![1] = rd], al)

InitDPConsensus ==
    /\ InitDPAligned \/ InitDPAnyRead
    /\ IdlePair
    /\ IdleDP
    /\ IdleRC
    /\ IdleViral
    /\ IdleAux

NextDPConsensus ==
    \/ AlignmentCheckDP
    \/ MajorityCheckDP
    \/ ConsensusAssemblyDP
    \/ OutputDP

SpecDPConsensus == InitDPConsensus /\ [][NextDPConsensus]_vars

\* ReverseComplementSeq(seqLen) on every sequence over the base codes and
\* one value beyond them
InitRC ==
    /\ rcLen \in 1..MaxRevLen
    /\ rcIn \in [1..rcLen -> BaseCodes \cup {MaxSymbol}]
    /\ rcOut = <<>> /\ rcBack = <<>> /\ rcPc = "first"
    /\ IdleCons
    /\ IdlePair
    /\ IdleDP
    /\ IdleAux
    /\ IdleViral

NextRC == Reverse \/ ReverseAgain

SpecRC == InitRC /\ [][NextRC]_vars

\* an instantiation with one position, its inputs, no signal assigned
StartViral(nr, minQual, minDepth, minFreq, amb, primer, bs, qs) ==
    /\ viralIn =
          [L |-> 1, NUM_READS |-> nr, min_qual |-> minQual,
           min_depth |-> minDepth, min_freq |-> minFreq, ambig |-> amb,
           primer_regions |-> primer, bases |-> bs, quals |-> qs,
           is_reverse |-> [r \in 1..nr |-> 0]]
    /\ viral = NoSignals
    /\ viralPc = "count"

\* min_freq as a percentage: none, half, all
Frequencies == {0, 50, 100}

\* every read set over the five base codes, qualities at or one below
\* min_qual = 1, the position in a primer region or not, ambig = N (4)
InitViral ==
    /\ \E nr \in 1..MaxViralReads :
         \E bs \in [1..nr -> [1..1 -> Slots]],
            qs \in [1..nr -> [1..1 -> {0, 1}]],
            primer \in [1..1 -> {0, 1}],
            minDepth \in 0..nr, minFreq \in Frequencies :
           StartViral(nr, 1, minDepth, minFreq, NumBases, primer, bs, qs)
    /\ IdleCons
    /\ IdlePair
    /\ IdleDP
    /\ IdleRC
    /\ IdleAux

NextViral ==
    \/ CountBases
    \/ ScanFirst
    \/ ScanNext
    \/ Thresholds
    \/ ConsensusTerms

SpecViral == InitViral /\ [][NextViral]_vars

\* two reads of full quality outside primer regions, min_depth 1,
\* min_freq 50
InitViralProver ==
    /\ \E bs \in [1..2 -> [1..1 -> Slots]] :
           StartViral(2, 1, 1, 50, NumBases, [pos \in 1..1 |-> 0], bs,
                      [r \in 1..2 |-> [pos \in 1..1 |-> 1]])
    /\ IdleCons
    /\ IdlePair
    /\ IdleDP
    /\ IdleRC
    /\ IdleAux

NextViralProver ==
    \/ CountBases
    \/ ScanFirst
    \/ ScanNext
    \/ ScanLastHinted
    \/ Thresholds
    \/ ConsensusTerms
    \/ ConsensusHinted

SpecViralProver == InitViralProver /\ [][NextViralProver]_vars

\* a test case waiting for prepareInput; no input signal exists yet
PrepStart(nr, sLen, aLen, thr, seqs) ==
    /\ nReads = nr /\ maxSeqLen = sLen /\ maxAlnLen = aLen /\ threshold = thr
    /\ reads = <<>> /\ readLens = <<>> /\ expectedScore = 0
    /\ alignedReads = <<>> /\ isReversed = <<>> /\ startPos = <<>>
    /\ consensus = <<>> /\ pc = "prepare"
    /\ processedReads = <<>> /\ seqMatch = <<>>
    /\ pairScores = <<>> /\ pairScoreSignals = <<>>
    /\ scoreAccumulator = <<>> /\ totalScore = 0 /\ scoreCheck = 0
    /\ baseCounts = <<>> /\ majorityChk = <<>> /\ validConsensus = <<>>
    /\ valid = 0 /\ failed = {}
    /\ testCase = seqs /\ alignmentScore = 0 /\ firstRun = <<>>

\* the strings of at most len characters over A, C, G, T and the gap
Strings(len) == UNION {[1..k -> DOMAIN BASE] : k \in 0..len}

\* the lists of at most nr strings of at most len characters
TestCases(nr, len) == UNION {[1..k -> Strings(len)] : k \in 0..nr}

\* test cases within the limits of the instantiation
InitPartitions ==
    \E sh \in Shapes, thr \in 0..MaxThreshold :
      \E seqs \in TestCases(sh[1], sh[2]) :
        PrepStart(sh[1], sh[2], sh[2], thr, seqs)

\* one string of up to one character more than maxAlnLen, any maxSeqLen
InitOverlong ==
    \E sh \in Shapes :
      \E sLen \in 1..sh[2], str \in Strings(sh[2] + 1) :
        PrepStart(sh[1], sLen, sh[2], MaxThreshold, <<str>>)

InitPrep ==
    /\ InitPartitions \/ InitOverlong
    /\ IdlePair
    /\ IdleDP
    /\ IdleRC
    /\ IdleViral

NextPrep ==
    \/ RunPrepareInput
    \/ SequenceValidation
    \/ ScoreValidation
    \/ MajorityCounting
    \/ ConsensusValidation
    \/ Output

SpecPrep == InitPrep /\ [][NextPrep]_vars

\* an instantiation of the consensus-computing Consensus with its inputs
StartV1(nr, sLen, aLen, thr, rds, lens, sc, al, rev, sp) ==
    /\ nReads = nr /\ maxSeqLen = sLen /\ maxAlnLen = aLen /\ threshold = thr
    /\ reads = rds /\ readLens = lens /\ expectedScore = sc
    /\ alignedReads = al /\ isReversed = rev /\ startPos = sp
    /\ consensus = <<>> /\ pc = "sequenceV1"
    /\ processedReads = <<>> /\ seqMatch = <<>>
    /\ pairScores = <<>> /\ pairScoreSignals = <<>>
    /\ scoreAccumulator = <<>> /\ totalScore = 0 /\ scoreCheck = 0
    /\ baseCounts = <<>> /\ majorityChk = <<>> /\ validConsensus = <<>>
    /\ valid = 0 /\ failed = {}

\* generateWitnessInput on every small alignment, every threshold
InitV1Generated ==
    \E sh \in Shapes, thr \in 0..MaxThreshold :
      \E al \in SmallAlignments(sh) :
        StartV1(sh[1], sh[2], sh[2], thr,
                ReadsOf(al, sh[2], NoneReversed(sh[1])), LensOf(al),
                CalculateMSAScore(al), al, NoneReversed(sh[1]),
                NoneReversed(sh[1]))

\* the same with expectedScore moved by a nonzero amount
InitV1Score ==
    \E sh \in Shapes :
      \E al \in SmallAlignments(sh),
         d \in ((0 - MaxDelta)..MaxDelta) \ {0} :
        StartV1(sh[1], sh[2], sh[2], MaxThreshold,
                ReadsOf(al, sh[2], NoneReversed(sh[1])), LensOf(al),
                CalculateMSAScore(al) + d, al, NoneReversed(sh[1]),
                NoneReversed(sh[1]))

\* the same with any declared length for the first read
InitV1ReadLen ==
    \E sh \in Shapes :
      \E al \in SmallAlignments(sh), len \in 0..sh[2] :
        StartV1(sh[1], sh[2], sh[2], MaxThreshold,
                ReadsOf(al, sh[2], NoneReversed(sh[1])),
                [LensOf(al) EXCEPT ![1] = len],
                CalculateMSAScore(al), al, NoneReversed(sh[1]),
                NoneReversed(sh[1]))

InitV1 ==
    /\ InitV1Generated \/ InitV1Score \/ InitV1ReadLen
    /\ IdlePair
    /\ IdleDP
    /\ IdleRC
    /\ IdleViral
    /\ IdleAux

NextV1 ==
    \/ SequenceValidationV1
    \/ ScoreValidationV1
    \/ MajorityCountingV1
    \/ ConsensusGenerationV1
    \/ OutputV1

SpecV1 == InitV1 /\ [][NextV1]_vars

\* <<nReads, maxAlnLen>> of the two-read instantiations
PairShapes == {sh \in Shapes : sh[1] = 2}

\* the checked-consensus circuit on every small alignment and startPos; the
\* public values are fixed: gap-only reads of length 0, expectedScore 0
InitStartCanonical ==
    \E sh \in PairShapes :
      \E al \in SmallAlignments(sh), sp \in StartPositions(sh[1]) :
        ConsStartAt(sh[1], sh[2], sh[2], MaxThreshold,
                    [r \in 1..sh[1] |-> [i \in 1..sh[2] |-> GAP]],
                    [r \in 1..sh[1] |-> 0], 0, al, NoneReversed(sh[1]), sp,
                    [i \in 1..sh[2] |-> GAP])

\* the consensus-computing circuit on the same inputs
InitStartV1 ==
    \E sh \in PairShapes :
      \E al \in SmallAlignments(sh), sp \in StartPositions(sh[1]) :
        StartV1(sh[1], sh[2], sh[2], MaxThreshold,
                [r \in 1..sh[1] |-> [i \in 1..sh[2] |-> GAP]],
                [r \in 1..sh[1] |-> 0], 0, al, NoneReversed(sh[1]), sp)

InitStart ==
    /\ InitStartCanonical \/ InitStartV1
    /\ IdlePair
    /\ IdleDP
    /\ IdleRC
    /\ IdleViral
    /\ IdleAux

NextStart ==
    \/ SequenceValidation
    \/ ScoreValidation
    \/ MajorityCounting
    \/ ConsensusValidation
    \/ Output
    \/ SequenceValidationV1
    \/ ScoreValidationV1
    \/ MajorityCountingV1
    \/ ConsensusGenerationV1
    \/ OutputV1
    \/ EvaluateAgain

SpecStart == InitStart /\ [][NextStart]_vars

\* <<nReads, maxAlnLen>> of the instantiations with two or three reads
OrderShapes == {sh \in Shapes : sh[1] <= 3}

\* generated inputs whose first read may be supplied reverse-complemented,
\* may declare any length, and whose expectedScore may be off
InitOrder ==
    \E sh \in OrderShapes :
      \E al \in SmallAlignments(sh), len \in 0..sh[2], d \in 0..MaxDelta,
         flag \in {0, 1} :
        LET rev == [r \in 1..sh[1] |-> IF r = 1 THEN flag ELSE 0]
        IN  /\ ConsStart(sh[1], sh[2], sh[2], MaxThreshold,
                         ReadsOf(al, sh[2], rev),
                         [LensOf(al) EXCEPT ![1] = len],
                         GenExpectedScore(al) + d, al, rev,
                         GenConsensus(al, MaxThreshold))
            /\ IdlePair
            /\ IdleDP
            /\ IdleRC
            /\ IdleViral
            /\ IdleAux

NextOrder ==
    \/ SequenceValidation
    \/ ScoreValidation
    \/ MajorityCounting
    \/ ConsensusValidation
    \/ Output
    \/ EvaluatePermuted

SpecOrder == InitOrder /\ [][NextOrder]_vars

\* generated two-read inputs; the first read declares its length or 0
InitReads ==
    \E sh \in PairShapes :
      \E al \in SmallAlignments(sh) : \E len \in {0, LensOf(al)[1]} :
        /\ ConsStart(sh[1], sh[2], sh[2], MaxThreshold,
                     ReadsOf(al, sh[2], NoneReversed(sh[1])),
                     [LensOf(al) EXCEPT ![1] = len],
                     GenExpectedScore(al), al, NoneReversed(sh[1]),
                     GenConsensus(al, MaxThreshold))
        /\ IdlePair
        /\ IdleDP
        /\ IdleRC
        /\ IdleViral
        /\ IdleAux

NextReads ==
    \/ SequenceValidation
    \/ ScoreValidation
    \/ MajorityCounting
    \/ ConsensusValidation
    \/ Output
    \/ EvaluateOtherReads

SpecReads == InitReads /\ [][NextReads]_vars

\* generated two-read inputs with any small field value as isReversed; a
\* read is supplied reverse-complemented when its flag is 1
InitFlags ==
    \E sh \in PairShapes :
      \E al \in SmallAlignments(sh), rev \in [1..sh[1] -> 0..MaxFlag] :
        /\ ConsStart(sh[1], sh[2], sh[2], MaxThreshold,
                     ReadsOf(al, sh[2], rev), LensOf(al),
                     GenExpectedScore(al), al, rev,
                     GenConsensus(al, MaxThreshold))
        /\ IdlePair
        /\ IdleDP
        /\ IdleRC
        /\ IdleViral
        /\ IdleAux

NextFlags ==
    \/ SequenceValidation
    \/ ScoreValidation
    \/ MajorityCounting
    \/ ConsensusValidation
    \/ Output

SpecFlags == InitFlags /\ [][NextFlags]_vars

(* ============================ properties ================================ *)
\* the evaluation of the canonical circuit is over and no assertion failed
Done == pc = "done"
Satisfied == Done /\ failed = {}

Degap(rw) == StripGaps(rw, Len(rw))

\* the read as the claims orient it: reversed and complemented when flagged
StrandCorrected(r) ==
    IF isReversed[r] = 1 THEN JsReverseComplement(reads[r]) ELSE reads[r]

\* the number of reads that carry `base` in column c
Count(c, base) == Cardinality({r \in 1..nReads : alignedReads[r][c] = base})

\* S(c): the bases whose count is strictly above the threshold
Clears(c) == {base \in Bases : Count(c, base) > threshold}

\* +1 equal bases, 0 two gaps, -1 otherwise
RefScore(x0, x1) ==
    IF x0 # 0 /\ x1 # 0 /\ x0 = x1 THEN 1
    ELSE IF x0 = 0 /\ x1 = 0 THEN 0 ELSE 0 - 1

RECURSIVE SetSum(_, _)
SetSum(S, f) ==
    IF S = {} THEN 0
    ELSE LET x == CHOOSE z \in S : TRUE IN f[x] + SetSum(S \ {x}, f)

UnorderedPairs == {p \in (1..nReads) \X (1..nReads) : p[1] < p[2]}

RefPairScore(p) ==
    SetSum(1..maxAlnLen,
           [k \in 1..maxAlnLen |->
               RefScore(alignedReads[p[1]][k], alignedReads[p[2]][k])])

RefTotal == SetSum(UnorderedPairs, [p \in UnorderedPairs |-> RefPairScore(p)])

IsScenario == nReads = 3 /\ alignedReads = ScenarioReads /\ threshold = 1

\* the input of C1: alignments degap to the oriented reads of the declared
\* lengths, the score is the pairwise sum, the consensus follows the rule
ValidInput ==
    /\ \A r \in 1..nReads :
          /\ Degap(alignedReads[r]) = Degap(StrandCorrected(r))
          /\ readLens[r] = Len(Degap(StrandCorrected(r)))
    /\ expectedScore = RefTotal
    /\ \A c \in 1..maxAlnLen :
          \/ Clears(c) = {consensus[c]}
          \/ Clears(c) = {} /\ consensus[c] = GAP

\* C1: completeness of the canonical circuit: on every valid input (and on
\* the scenario ACGT/ACGT/ACGA with expectedScore 8) no assertion fails.
C1_Completeness ==
    /\ (Done /\ ValidInput) => failed = {}
    /\ (Done /\ IsScenario /\ expectedScore = 8) => failed = {}

C1_Witness ==
    /\ Satisfied /\ ValidInput /\ IsScenario /\ expectedScore = 8
    /\ consensus = <<1, 2, 3, 4>>

ScoreChecked == pc \in {"count", "consensus", "output", "done"}

\* C2: score soundness: scoreCheck.out === 1 holds for exactly one value of
\* expectedScore, the sum of the column scores over all unordered pairs.
C2_ScoreSoundness ==
    ScoreChecked =>
        /\ (<<"scoreCheck", 0>> \notin failed) <=> (expectedScore = RefTotal)
        /\ scoreCheck = 1 <=> expectedScore = RefTotal
        /\ Done => valid = scoreCheck

C2_Witness ==
    /\ Done /\ IsScenario /\ expectedScore = 7
    /\ failed = {<<"scoreCheck", 0>>}

\* C3: alignment consistency: in every satisfying witness each alignment,
\* with its gaps removed, is the strand-corrected read.
C3_AlignmentConsistency ==
    Satisfied =>
        \A r \in 1..nReads :
            Degap(alignedReads[r]) = Degap(StrandCorrected(r))

\* C4: consensus soundness: a non-gap consensus value whose count is not
\* above the threshold (or that is no base) fails validConsensus.
C4_UnsupportedBase ==
    Done =>
        \A c \in 1..maxAlnLen :
            (consensus[c] # GAP /\ consensus[c] \notin Clears(c))
                => <<"validConsensus", c>> \in failed

C4_Witness ==
    /\ Done
    /\ \E c \in 1..maxAlnLen :
          /\ consensus[c] \in Bases
          /\ threshold > 0
          /\ Count(c, consensus[c]) = threshold
          /\ failed = {<<"validConsensus", c>>}

\* C5: consensus soundness: a gap as the consensus of a column in which a
\* base clears the threshold makes the constraints unsatisfiable.
C5_GapHidingMajority ==
    Done =>
        \A c \in 1..maxAlnLen :
            (consensus[c] = GAP /\ Clears(c) # {}) => failed # {}

\* C6: uniqueness is asserted: a column with two or more bases above the
\* threshold makes the constraints unsatisfiable, whatever the consensus.
C6_UniquenessAsserted ==
    Done =>
        \A c \in 1..maxAlnLen :
            Cardinality(Clears(c)) >= 2 => failed # {}

\* C7: ScoringSystem: y is +1 on equal non-zero values, 0 on two zeros and
\* -1 otherwise; the three indicators are bits and exactly one of them is 1.
C7_ScoringSystem ==
    \A i \in 1..Len(scorer) :
        LET s == scorer[i] IN
        /\ s.y = RefScore(pairAln[1][i], pairAln[2][i])
        /\ s.realMatch \in {0, 1}
        /\ s.bothGaps \in {0, 1}
        /\ s.isMismatch \in {0, 1}
        /\ s.realMatch + s.bothGaps + s.isMismatch = 1

C7_Witness ==
    /\ pairPc = "done"
    /\ pairAln[1][1] = MaxSymbol /\ pairAln[2][1] = MaxSymbol
    /\ scorer[1].y = 1 /\ scorer[1].bothGaps = 0
    /\ pairAln[1][2] = 0 - 1 /\ pairAln[2][2] = GAP
    /\ scorer[2].y = 0 - 1 /\ scorer[2].isMismatch = 1

\* C8: totalScore is the sum over the unordered pairs i < j of the column
\* scores; nReads*(nReads-1)/2 pairs contribute, each once, none with i >= j.
C8_TotalScore ==
    Done =>
        /\ totalScore = RefTotal
        /\ DOMAIN pairScores = UnorderedPairs
        /\ Len(pairScoreSignals) = (nReads * (nReads - 1)) \div 2
        /\ Len(pairScoreSignals) = Cardinality(UnorderedPairs)
        /\ \A p \in UnorderedPairs : pairScores[p] = RefPairScore(p)

C8_Witness ==
    /\ Done /\ nReads >= 3
    /\ Len(pairScoreSignals) >= 3
    /\ totalScore < 0
    /\ \E p \in UnorderedPairs : pairScores[p] > 0

MajorityChecked == pc \in {"consensus", "output", "done"}

\* C9: MajorityCheck is strict: ok = 1 exactly when count > threshold, so
\* count = threshold gives ok = 0.
C9_MajorityStrict ==
    MajorityChecked =>
        \A pos \in 1..maxAlnLen, base \in Bases :
            /\ baseCounts[pos][base] \in 0..nReads
            /\ majorityChk[pos][base] \in {0, 1}
            /\ majorityChk[pos][base] = 1 <=> baseCounts[pos][base] > threshold
            /\ baseCounts[pos][base] = threshold => majorityChk[pos][base] = 0

C9_Witness ==
    /\ MajorityChecked
    /\ threshold > 0
    /\ \E pos \in 1..maxAlnLen, base \in Bases :
          baseCounts[pos][base] = threshold /\ majorityChk[pos][base] = 0
    /\ \E pos \in 1..maxAlnLen, base \in Bases :
          baseCounts[pos][base] = threshold + 1 /\ majorityChk[pos][base] = 1

\* a read: bases first, then only padding, and at least one base
RightPadded(rd) ==
    \A i \in 1..Len(rd) : rd[i] = GAP => \A j \in i..Len(rd) : rd[j] = GAP
HasBase(rd) == \E i \in 1..Len(rd) : rd[i] # GAP

\* C10: for a right-padded read with at least one base, pair_aln_seq
\* outputs 1 exactly when the alignment without its gaps is the read's
\* bases in order; a changed base gives 0 and chk.y === 1 fails.
C10_DPValidator ==
    (dpPc = "done" /\ RightPadded(seq) /\ HasBase(seq)) =>
        /\ out \in {0, 1}
        /\ out = 1 <=> Degap(aln) = Degap(seq)
        /\ y = out

C10_Witness ==
    /\ dpPc = "done" /\ RightPadded(seq) /\ HasBase(seq)
    /\ Len(Degap(aln)) = Len(Degap(seq))
    /\ Cardinality({i \in 1..Len(Degap(seq)) :
                       Degap(aln)[i] # Degap(seq)[i]}) = 1
    /\ \E i \in 1..m : aln[i] = GAP
    /\ out = 0 /\ y # 1

SeqChecked == pc \in {"score", "count", "consensus", "output", "done"}

\* the number of non-zero symbols of alignedReads[r]
NonGapCount(r) ==
    Cardinality({c \in 1..maxAlnLen : alignedReads[r][c] # GAP})

C13_ScorersAgree ==
    (/\ pairPc = "done"
     /\ \A k \in 1..2, i \in 1..alnLen : pairAln[k][i] \in BaseCodes) =>
        /\ JsPairScore(pairAln[1], pairAln[2], alnLen) = score
        /\ CalculatePairwiseScore(pairAln[1], pairAln[2]) = score
        /\ score = SetSum(1..alnLen,
                          [i \in 1..alnLen |->
                              RefScore(pairAln[1][i], pairAln[2][i])])

C13_Witness ==
    /\ pairPc = "done"
    /\ pairAln[1][1] = GAP /\ pairAln[2][1] = GAP
    /\ pairAln[1][alnLen] = 3 /\ pairAln[2][alnLen] = 3
    /\ \A i \in 2..(alnLen - 1) : pairAln[1][i] = 2 /\ pairAln[2][i] = GAP
    /\ score = 3 - alnLen
    /\ CalculatePairwiseScore(pairAln[1], pairAln[2]) = 3 - alnLen

\* the complement table: 0->0, A(1)<->T(4), C(2)<->G(3)
Complement == [base \in BaseCodes |-> IF base = GAP THEN GAP ELSE 5 - base]

OverBaseCodes(sq) == \A i \in 1..Len(sq) : sq[i] \in BaseCodes

\* C20: ReverseComplement maps 0->0, 1->4, 2->3, 3->2, 4->1 and
\* ReverseComplementSeq(L) gives revSeq[i] = ReverseComplement(seq[L-1-i]);
\* on a sequence over 0..4 this is reverseComplement of the JavaScript
\* generator, and a second application returns the original sequence.
C20_ReverseComplement ==
    (rcPc \in {"second", "done"} /\ OverBaseCodes(rcIn)) =>
        /\ Len(rcOut) = rcLen
        /\ \A i \in 1..rcLen : rcOut[i] = Complement[rcIn[rcLen + 1 - i]]
        /\ rcOut = JsReverseComplement(rcIn)
        /\ rcPc = "done" => rcBack = rcIn

C20_Witness ==
    /\ rcPc = "done" /\ rcLen = MaxRevLen
    /\ rcIn[1] = 1 /\ rcIn[2] = 2 /\ \A i \in 3..rcLen : rcIn[i] = GAP
    /\ rcOut[rcLen] = 4 /\ rcOut[rcLen - 1] = 3
    /\ \A i \in 1..(rcLen - 2) : rcOut[i] = GAP
    /\ rcBack = rcIn

\* the test case respects nReadsFixed, maxAlnLen and maxSeqLen
WithinLimits ==
    /\ Len(testCase) <= nReads
    /\ \A k \in 1..Len(testCase) :
          /\ Len(testCase[k]) <= maxAlnLen
          /\ Len(RemoveGaps(testCase[k])) <= maxSeqLen

\* C12: the input prepareInput builds from a list of at most nReadsFixed
\* strings over A, C, G, T, -, each within maxAlnLen characters and
\* maxSeqLen bases, satisfies every constraint of the canonical circuit.
C12_PartitionsAccepted ==
    (Done /\ WithinLimits) => (failed = {} /\ valid = 1)

C12_Witness ==
    /\ Satisfied /\ WithinLimits
    /\ Len(testCase) = 2 /\ nReads = 3
    /\ testCase[1] = <<"A">> /\ testCase[2] = <<"A">>
    /\ readLens = <<1, 1, 0>>
    /\ threshold = 1 /\ Clears(1) = {1} /\ consensus = <<GAP>>
    /\ expectedScore = 0 - 1

\* C15: a string with more than maxSeqLen bases or more than maxAlnLen
\* characters makes the input builder fail: no circuit input is produced.
C15_StructuralErrorsRejected ==
    (\E k \in 1..Len(testCase) :
        \/ Len(testCase[k]) > maxAlnLen
        \/ Len(RemoveGaps(testCase[k])) > maxSeqLen)
    => pc = "prepare"

\* C16: in every satisfying witness readLens[r] <= maxSeqLen.
C16_ReadLengthInvariant ==
    Satisfied => \A r \in 1..nReads : readLens[r] <= maxSeqLen

\* C17: in every satisfying witness every alignedReads[r][pos] is a base
\* code 0..4; a witness with another field value in an alignment is rejected.
C17_BaseCodeRange ==
    Satisfied =>
        \A r \in 1..nReads, pos \in 1..maxAlnLen :
            alignedReads[r][pos] \in BaseCodes

DoneV1 == pc = "doneV1"

\* C18: in the consensus-computing circuit valid = 1 exactly when every
\* read's SequenceMatch.isMatch is 1 and totalScore equals expectedScore;
\* a read that fails sequence validation gives valid = 0.
C18_ValidMeansAllPass ==
    DoneV1 =>
        (valid = 1 <=>
            /\ \A r \in 1..nReads : seqMatch[r] = 1
            /\ totalScore = expectedScore)

\* the lowest of the bases above the threshold in column c
LowestClearing(c) == CHOOSE base \in Clears(c) : \A o \in Clears(c) : base <= o

\* C19: in the consensus-computing circuit, a column in which more than
\* one base has count > threshold gets the lowest-index such base.
C19_TieBreakLowestIndex ==
    DoneV1 =>
        \A c \in 1..maxAlnLen :
            Cardinality(Clears(c)) > 1 => consensus[c] = LowestClearing(c)

\* C14: startPos is advisory: two inputs of the checked-consensus circuit,
\* or of the consensus-computing circuit, that differ only in startPos
\* fail the same assertions and give every other signal and output the
\* same value.
C14_StartPosAdvisory ==
    (firstRun # <<>> /\ pc \in {"done", "doneV1"}) => Signals = firstRun

C14_Witness ==
    /\ firstRun # <<>> /\ pc = "done"
    /\ startPos = [r \in 1..nReads |-> MaxStart]
    /\ failed = {<<"seqMatch", 1>>, <<"scoreCheck", 0>>}
    /\ firstRun.failed = failed
    /\ firstRun.totalScore = totalScore /\ totalScore < 0

\* C25: pair_aln_seq accepts (out = 1) a read that is only padding paired
\* with an all-gap alignment: the steps that skip read padding in the
\* first table column are not lost.
C25_EmptyReadAccepted ==
    (/\ dpPc = "done"
     /\ \A i \in 1..n : seq[i] = GAP
     /\ \A j \in 1..m : aln[j] = GAP) => out = 1

Abs(x) == IF x < 0 THEN 0 - x ELSE x

\* nReads*(nReads-1)/2 * maxAlnLen
ScoreBound == ((nReads * (nReads - 1)) \div 2) * maxAlnLen

\* C22: every partial sum of the score accumulation and totalScore lie
\* within nReads*(nReads-1)/2*maxAlnLen in absolute value, which is within
\* nReads^2*maxAlnLen; every pair score lies within maxAlnLen.
C22_ScoreRange ==
    ScoreChecked =>
        /\ \A k \in 1..Len(scoreAccumulator) :
              Abs(scoreAccumulator[k]) <= ScoreBound
        /\ \A k \in 1..Len(pairScoreSignals) :
              Abs(pairScoreSignals[k]) <= maxAlnLen
        /\ Abs(totalScore) <= ScoreBound
        /\ ScoreBound <= nReads * nReads * maxAlnLen

C22_Witness ==
    /\ ScoreChecked /\ nReads >= 3
    /\ totalScore = 0 - ScoreBound
    /\ \A k \in 1..Len(pairScoreSignals) : pairScoreSignals[k] = 0 - maxAlnLen

ColumnTotal(pos) ==
    baseCounts[pos][1] + baseCounts[pos][2] + baseCounts[pos][3]
    + baseCounts[pos][4]

ColumnWinners(pos) ==
    majorityChk[pos][1] + majorityChk[pos][2] + majorityChk[pos][3]
    + majorityChk[pos][4]

\* the parameters of the preset Consensus(5, 20, 50, 2)
IsPresetFiveTwo == nReads = 5 /\ threshold = 2

\* C26: in every column the four base counts are each in 0..nReads and sum
\* to at most nReads; when 2*threshold >= nReads, as in the presets
\* (10,20,30,5) and (5,20,50,2), at most one base of a column has
\* MajorityCheck.ok = 1.
C26_ColumnCounts ==
    MajorityChecked =>
        /\ \A pos \in 1..maxAlnLen :
              /\ \A base \in Bases : baseCounts[pos][base] \in 0..nReads
              /\ ColumnTotal(pos) <= nReads
              /\ 2 * threshold >= nReads => ColumnWinners(pos) <= 1
        /\ IsPresetFiveTwo => 2 * threshold >= nReads

\* C26 amended: the counts are each in 0..nReads and sum to at most nReads;
\* when 2*(threshold + 1) > nReads, which 2*threshold >= nReads implies and
\* which both presets meet, at most one base of a column has ok = 1.
C26_ColumnCountsAmended ==
    MajorityChecked =>
        /\ \A pos \in 1..maxAlnLen :
              /\ \A base \in Bases : baseCounts[pos][base] \in 0..nReads
              /\ ColumnTotal(pos) <= nReads
              /\ 2 * threshold >= nReads => ColumnWinners(pos) <= 1
              /\ 2 * (threshold + 1) > nReads => ColumnWinners(pos) <= 1
        /\ 2 * threshold >= nReads => 2 * (threshold + 1) > nReads

C26_Witness ==
    /\ MajorityChecked /\ IsPresetFiveTwo
    /\ 2 * threshold < nReads
    /\ \E pos \in 1..maxAlnLen :
          /\ baseCounts[pos][1] = 3 /\ baseCounts[pos][2] = 2
          /\ ColumnTotal(pos) = nReads /\ ColumnWinners(pos) = 1

\* the input is what the old generator writes for its aligned reads
IsGenerated ==
    /\ expectedScore = CalculateMSAScore(alignedReads)
    /\ reads = ReadsOf(alignedReads, maxSeqLen, NoneReversed(nReads))
    /\ readLens = LensOf(alignedReads)

\* C29: on an input written by the old generator the consensus-computing
\* circuit's totalScore equals calculateMSAScore, so valid = 1 and
\* alignmentScore is the generated expectedScore (80 for five reads
\* ATCGATCG).
C29_GeneratorMatchesV1 ==
    (DoneV1 /\ IsGenerated) =>
        /\ totalScore = CalculateMSAScore(alignedReads)
        /\ valid = 1
        /\ alignmentScore = expectedScore

\* C21: processedReads[r][i] is the reverse complement of the read at i
\* when isReversed[r] = 1 and reads[r][i] when isReversed[r] = 0, and every
\* witness that satisfies the circuit has isReversed[r] in {0, 1}.
C21_OrientationSelection ==
    /\ SeqChecked =>
          \A r \in 1..nReads, i \in 1..maxSeqLen :
              /\ isReversed[r] = 1 =>
                    processedReads[r][i]
                        = Complement[reads[r][maxSeqLen + 1 - i]]
              /\ isReversed[r] = 0 => processedReads[r][i] = reads[r][i]
    /\ Satisfied => \A r \in 1..nReads : isReversed[r] \in {0, 1}

\* the inputs of the two evaluations are the same reads in two orders
SecondRunDone == firstRun # <<>> /\ pc = "done"

\* C23: supplying the reads in another order (reads, readLens, alignedReads
\* and isReversed permuted together) leaves totalScore and every column's
\* base counts unchanged, and the circuit is satisfied by both orders or by
\* neither; ScoringSystem gives the same score to (a, b) and to (b, a).
C23_OrderIndependence ==
    SecondRunDone =>
        /\ totalScore = firstRun.totalScore
        /\ baseCounts = firstRun.baseCounts
        /\ failed = {} <=> firstRun.failed = {}
        /\ \A r, q \in 1..nReads, pos \in 1..maxAlnLen :
              ScoringSystem(alignedReads[r][pos], alignedReads[q][pos]).y
                  = ScoringSystem(alignedReads[q][pos],
                                  alignedReads[r][pos]).y

C23_Witness ==
    /\ SecondRunDone /\ nReads = 3
    /\ alignedReads = <<<<1>>, <<2>>, <<1>>>>
    /\ firstRun.pairScoreSignals = <<1, 0 - 1, 0 - 1>>
    /\ pairScoreSignals = <<0 - 1, 1, 0 - 1>>
    /\ totalScore = 0 - 1 /\ failed = {}

DoneDP == pc = "doneDP"

\* column c has exactly one base whose count exceeds the threshold
OneWinner(c) == Cardinality(Clears(c)) = 1

\* C24: the DP variant is satisfiable on valid input: when every read
\* aligns to its row (chk.y = 1) and every column has exactly one base
\* whose count exceeds the threshold, every constraint holds and
\* consensus[i] is the base code (1..4) of the winning base.
C24_DPVariantSatisfiable ==
    (/\ DoneDP /\ y = 1
     /\ \A c \in 1..maxAlnLen : OneWinner(c)) =>
        /\ failed = {}
        /\ \A c \in 1..maxAlnLen : consensus[c] \in Clears(c)

\* the largest of the counts of slots 0..k at position pos
SlotMax(pos, k) ==
    CHOOSE c \in {viral.counts[j][pos] : j \in 0..k} :
        \A j \in 0..k : viral.counts[j][pos] <= c

\* the lowest of the slots 0..k whose count is that maximum
LowestAt(pos, k) ==
    CHOOSE j \in 0..k :
        /\ viral.counts[j][pos] = SlotMax(pos, k)
        /\ \A i \in 0..k : viral.counts[i][pos] = SlotMax(pos, k) => j <= i

Scanning == viralPc \in {"scan", "best", "consensus", "done"}

\* C27: the scan of the five count slots in index order replaces the
\* running best only on a strictly greater count: after slot k the running
\* best is the maximum of slots 0..k at the lowest index attaining it, so
\* best_count[pos] is the maximum of the five counts and best_base[pos] the
\* lowest index attaining it.
C27_ViralArgmax ==
    /\ Scanning =>
          \A pos \in Positions :
              /\ \A k \in DOMAIN viral.best_count_int[pos] :
                    /\ viral.best_count_int[pos][k] = SlotMax(pos, k)
                    /\ viral.best_base_int[pos][k] = LowestAt(pos, k)
              /\ \A k \in DOMAIN viral.is_better[pos] :
                    viral.is_better[pos][k] = 1
                        <=> viral.counts[k][pos] > SlotMax(pos, k - 1)
    /\ viralPc \in {"consensus", "done"} =>
          \A pos \in Positions :
              /\ viral.best_count[pos] = SlotMax(pos, NumBases)
              /\ viral.best_base[pos] = LowestAt(pos, NumBases)

C27_Witness ==
    /\ viralPc = "done"
    /\ viral.counts[1][1] = 1 /\ viral.counts[3][1] = 1
    /\ viral.is_better[1] = <<1, 0, 0, 0>>
    /\ viral.best_count[1] = 1 /\ viral.best_base[1] = 1

\* the consensus the witness program gives position pos
ProgramConsensus(pos) ==
    IF /\ SlotMax(pos, NumBases) >= viralIn.min_depth
       /\ SlotMax(pos, NumBases) * 100
              >= viral.total_depth[pos] * viralIn.min_freq
      THEN LowestAt(pos, NumBases)
      ELSE viralIn.ambig

\* C28: every assignment of the signals of ViralConsensus that satisfies
\* its constraints has the same consensus[pos]: best_base[pos] where the
\* depth and frequency checks pass, ambig elsewhere; a prover cannot choose
\* another value.
C28_ViralDeterministic ==
    viralPc = "done" =>
        \A pos \in Positions :
            /\ viral.consensus[pos] = ProgramConsensus(pos)
            /\ viral.consensus[pos] =
                  (IF viral.is_pass[pos] = 1 THEN viral.best_base[pos]
                   ELSE viralIn.ambig)

====
